---- MODULE Spec2Model ----
(***************************************************************************)
(* Verification model of the Credit Intelligence Engine backend.           *)
(*                                                                         *)
(* Part A: the Aadhaar OTP service (aadhaarService initiateOtp/verifyOtp)  *)
(*         over the in-memory session / attempt store (memoryStore.js).    *)
(*         Every request is a process that runs synchronously up to its    *)
(*         next await and is resumed by a separate action, so that the     *)
(*         interleavings of the Node event loop are explored.              *)
(* Part B: the consent service over PostgreSQL with its memory fallback.   *)
(*                                                                         *)
(* Date.now() is the variable now (milliseconds); it does not advance      *)
(* inside a synchronous section of a handler.                              *)
(***************************************************************************)
EXTENDS Integers, Sequences, FiniteSets, TLC

\* ─── Bounds ─────────────────────────────────────────────────────────────
NumProcs == 2
MaxTxn == 2
MaxVerifies == 4
MaxTicks == 2
MaxConsents == 2
MaxStamps == 1
MaxUuid == 3
MaxPlain == 2
MaxFlips == 1

Procs == 1..NumProcs

\* ─── Program constants ──────────────────────────────────────────────────
maxAttempts == 3
lockoutDurationMs == 5 * 60 * 1000
DemoDelayMs == 2000
TEST_OTP == <<1, 2, 3, 4, 5, 6>>

\* ─── Partial maps (JavaScript Map) ──────────────────────────────────────
EmptyMap == <<>>
MapHas(m, k) == k \in DOMAIN m
MapSet(m, k, v) == [x \in (DOMAIN m) \cup {k} |-> IF x = k THEN v ELSE m[x]]
MapDelete(m, k) == [x \in (DOMAIN m) \ {k} |-> m[x]]

\* ─── Inputs ─────────────────────────────────────────────────────────────
Aadhaars == { <<1, 2, 3, 4, 5, 6, 7, 8, 9, 0, 1, 2>>, <<1, 2, 3>> }
Otps == { TEST_OTP, <<6, 5, 4, 3, 2, 1>>, <<1, 2>> }
TickSteps == { 1, DemoDelayMs, lockoutDurationMs - 1 }
BackendOutcomes == { "ret_y", "ret_n", "error" }

Digits == 0..9
isValidAadhaar(a) == Len(a) = 12 /\ \A i \in 1..Len(a) : a[i] \in Digits
isValidOtp(o) == Len(o) = 6 /\ \A i \in 1..Len(o) : o[i] \in Digits
hashAadhaar(a) == <<"sha256">> \o a

VARIABLES
    now,        \* Date.now()
    ticks,      \* number of clock advances so far (bounded)
    sessions,   \* memoryStore.sessions : hashed -> [txnId, createdAt]
    attempts,   \* memoryStore.attempts : hashed -> [count, lockedUntil]; lockedUntil 0 is null
    nextTxn,    \* next value uuidv4() hands out to initiateOtp
    nver,       \* verify requests dispatched to the backend so far (bounded)
    pc,         \* per request process: where its Aadhaar call is suspended
    call,       \* per request process: the locals of its running Aadhaar call
    ret,        \* what the step just taken handed to its caller (NoRet: nothing)
    lastInit,   \* history: hashed -> txnId returned by the latest completed initiate
    wrong,      \* history: hashed -> failed verifies since the last successful one
    thirdAt,    \* history: hashed -> time of the maxAttempts-th failed verify
    issued,     \* history: txnId -> number of JWTs issued for it
    db,         \* consent_log table : consent_id -> row
    memoryStore, \* consentService.memoryStore : list of records
    useMemory,  \* consentService.useMemory
    ipc,        \* consentService.init(): "none", "wait" (awaiting initTable), "done"
    nextConsent, \* next value generateConsentId() hands out
    cpc,        \* per request process: where its consent call is suspended
    ccall,      \* per request process: the locals of its running consent call
    cret,       \* what the consent step just taken handed to its caller
    seenRevoked, \* history: consent ids some caller has observed with status REVOKED
    createdOk,  \* history: consent ids whose create returned success
    fiSessions, \* fiRequestService.fiSessions : txnid -> FI session
    nextUuid,   \* next value uuidv4() hands out to the FI services
    fpc,        \* per request process: where its FI call is suspended
    fcall,      \* per request process: the locals of its running FI call
    fret,       \* what the FI step just taken handed to its caller
    gcm,        \* one sealing and opening of FI data: key, plaintext, blob, result
    jws,        \* one signing and verification: payload, signer's key state, token, verdict
    gst,        \* one GST filing and its classification
    util,       \* one list of utility bills and its reliability result
    quiz,       \* one submitted list of quiz responses and its outcome
    flows,      \* one FI payload handed to analyzeTransactions and its result
    nova,       \* one input of the scoring engine and its result
    upi         \* one UPI transaction and the MCC found for it

clock == <<now, ticks>>
astate == <<sessions, attempts, nextTxn, nver, pc, call, ret,
            lastInit, wrong, thirdAt, issued>>
cstate == <<db, memoryStore, useMemory, ipc, nextConsent, cpc, ccall, cret,
            seenRevoked, createdOk>>
fstate == <<fiSessions, nextUuid, fpc, fcall, fret>>
analysers == <<quiz, flows, nova, upi>>
pstate == <<gcm, jws, gst, util, analysers>>
vars == <<clock, astate, cstate, fstate, pstate>>

\* what the Aadhaar actions leave alone, and what the consent actions leave alone
notAadhaar == <<cstate, fstate, pstate>>
notConsent == <<astate, fstate, pstate>>
notFi == <<astate, cstate, pstate>>

NoCall == [op |-> "none", h |-> <<>>, txn |-> 0, otp |-> <<>>, at |-> 0]
\* outcome and otp are history: how the backend call of a verify settled and
\* the OTP that verify carried
NoRet == [op |-> "none", h |-> <<>>, txn |-> 0, res |-> "none",
          remaining |-> 0, attemptsLeft |-> 0, locked |-> FALSE,
          outcome |-> "none", otp |-> <<>>]

\* ─── memoryStore.js ─────────────────────────────────────────────────────
createSession(s, h, txnId, t) == MapSet(s, h, [txnId |-> txnId, createdAt |-> t])
getSession(s, h) == IF MapHas(s, h) THEN <<s[h]>> ELSE <<>>
clearSession(s, h) == MapDelete(s, h)

\* isLocked with the comparison against lockedUntil turned around
isLocked_inverted(att, h, t) ==
    IF ~MapHas(att, h) \/ att[h].lockedUntil = 0
    THEN [locked |-> FALSE, store |-> att]
    ELSE IF t > att[h].lockedUntil
    THEN [locked |-> TRUE, store |-> att]
    ELSE [locked |-> FALSE, store |-> MapDelete(att, h)]

\* isLocked returns [locked, store]: an expired lock is deleted on the way
isLocked(att, h, t) ==
    IF ~MapHas(att, h) \/ att[h].lockedUntil = 0
    THEN [locked |-> FALSE, store |-> att]
    ELSE IF t < att[h].lockedUntil
    THEN [locked |-> TRUE, store |-> att]
    ELSE [locked |-> FALSE, store |-> MapDelete(att, h)]

CeilDiv(x, d) == (x + d - 1) \div d
getLockoutRemaining(att, h, t) ==
    IF ~MapHas(att, h) \/ att[h].lockedUntil = 0 THEN 0
    ELSE LET remaining == att[h].lockedUntil - t
         IN IF remaining > 0 THEN CeilDiv(remaining, 1000) ELSE 0

\* incrementFailed locking one failure late (> in place of >=)
incrementFailed_late(att, h, t) ==
    LET old == IF MapHas(att, h) THEN att[h] ELSE [count |-> 0, lockedUntil |-> 0]
        cnt == old.count + 1
    IN IF cnt > maxAttempts
       THEN [locked |-> TRUE, attemptsLeft |-> 0,
             store |-> MapSet(att, h, [count |-> cnt,
                                       lockedUntil |-> t + lockoutDurationMs])]
       ELSE [locked |-> FALSE, attemptsLeft |-> maxAttempts - cnt,
             store |-> MapSet(att, h, [count |-> cnt, lockedUntil |-> old.lockedUntil])]

\* incrementFailed returns [locked, attemptsLeft, store]
incrementFailed(att, h, t) ==
    LET old == IF MapHas(att, h) THEN att[h] ELSE [count |-> 0, lockedUntil |-> 0]
        cnt == old.count + 1
    IN IF cnt >= maxAttempts
       THEN [locked |-> TRUE, attemptsLeft |-> 0,
             store |-> MapSet(att, h, [count |-> cnt,
                                       lockedUntil |-> t + lockoutDurationMs])]
       ELSE [locked |-> FALSE, attemptsLeft |-> maxAttempts - cnt,
             store |-> MapSet(att, h, [count |-> cnt, lockedUntil |-> old.lockedUntil])]

resetAttempts(att, h) == MapDelete(att, h)

\* ─── Initial state ──────────────────────────────────────────────────────
AInit ==
    /\ sessions = EmptyMap
    /\ attempts = EmptyMap
    /\ nextTxn = 1
    /\ nver = 0
    /\ pc = [p \in Procs |-> "idle"]
    /\ call = [p \in Procs |-> NoCall]
    /\ ret = NoRet
    /\ lastInit = EmptyMap
    /\ wrong = EmptyMap
    /\ thirdAt = EmptyMap
    /\ issued = EmptyMap

\* ─── initiateOtp ────────────────────────────────────────────────────────
\* The synchronous prefix: validation, lock check, txn id, dispatch.
initiateOtp(p, a) ==
    /\ pc[p] = "idle"
    /\ LET h == hashAadhaar(a)
           lk == isLocked(attempts, h, now)
       IN
       IF ~isValidAadhaar(a)
       THEN /\ ret' = [NoRet EXCEPT !.op = "initiate", !.res = "INVALID_ID"]
            /\ UNCHANGED <<attempts, nextTxn, pc, call>>
       ELSE IF lk.locked
       THEN /\ attempts' = lk.store
            /\ ret' = [NoRet EXCEPT !.op = "initiate", !.h = h, !.res = "LOCKED",
                                    !.remaining = getLockoutRemaining(lk.store, h, now)]
            /\ UNCHANGED <<nextTxn, pc, call>>
       ELSE /\ nextTxn <= MaxTxn
            /\ attempts' = lk.store
            /\ nextTxn' = nextTxn + 1
            /\ pc' = [pc EXCEPT ![p] = "init_post"]
            /\ call' = [call EXCEPT ![p] = [NoCall EXCEPT !.op = "initiate", !.h = h,
                                                          !.txn = nextTxn]]
            /\ ret' = [NoRet EXCEPT !.op = "initiate", !.h = h, !.txn = nextTxn,
                                    !.res = "PENDING"]
    /\ UNCHANGED <<clock, sessions, nver, lastInit, wrong, thirdAt, issued, notAadhaar>>

\* createSession and the return that ends both branches of initiateOtp
initiateReturn(p) ==
    /\ sessions' = createSession(sessions, call[p].h, call[p].txn, now)
    /\ ret' = [NoRet EXCEPT !.op = "initiate", !.h = call[p].h,
                            !.txn = call[p].txn, !.res = "OK"]
    /\ lastInit' = MapSet(lastInit, call[p].h, call[p].txn)
    /\ pc' = [pc EXCEPT ![p] = "idle"]
    /\ call' = [call EXCEPT ![p] = NoCall]

\* axios.post to UIDAI answered: the session is stored and the call returns.
initiatePostOk(p) ==
    /\ pc[p] = "init_post"
    /\ initiateReturn(p)
    /\ UNCHANGED <<clock, attempts, nextTxn, nver, wrong, thirdAt, issued, notAadhaar>>

\* axios.post threw: the catch branch awaits sendSms ...
initiatePostFail(p) ==
    /\ pc[p] = "init_post"
    /\ pc' = [pc EXCEPT ![p] = "init_sms"]
    /\ ret' = NoRet
    /\ UNCHANGED <<clock, sessions, attempts, nextTxn, nver, call,
                   lastInit, wrong, thirdAt, issued, notAadhaar>>

\* ... then the 2 second timer ...
initiateSmsDone(p) ==
    /\ pc[p] = "init_sms"
    /\ pc' = [pc EXCEPT ![p] = "init_delay"]
    /\ call' = [call EXCEPT ![p].at = now + DemoDelayMs]
    /\ ret' = NoRet
    /\ UNCHANGED <<clock, sessions, attempts, nextTxn, nver,
                   lastInit, wrong, thirdAt, issued, notAadhaar>>

\* ... and stores the session once the timer has fired.
initiateDelayDone(p) ==
    /\ pc[p] = "init_delay"
    /\ now >= call[p].at
    /\ initiateReturn(p)
    /\ UNCHANGED <<clock, attempts, nextTxn, nver, wrong, thirdAt, issued, notAadhaar>>

\* ─── verifyOtp ──────────────────────────────────────────────────────────
\* The synchronous prefix: validation, lock check, session check, dispatch.
verifyOtp(p, a, otp, txnId) ==
    /\ pc[p] = "idle"
    /\ LET h == hashAadhaar(a)
           lk == isLocked(attempts, h, now)
           session == getSession(sessions, h)
           reject(code) == [NoRet EXCEPT !.op = "verify", !.h = h, !.txn = txnId,
                                         !.res = code]
       IN
       IF ~isValidAadhaar(a)
       THEN /\ ret' = [reject("INVALID_ID") EXCEPT !.h = <<>>]
            /\ UNCHANGED <<attempts, nver, pc, call>>
       ELSE IF ~isValidOtp(otp)
       THEN /\ ret' = reject("INVALID_OTP")
            /\ UNCHANGED <<attempts, nver, pc, call>>
       ELSE IF txnId = 0
       THEN /\ ret' = reject("TXN_REQUIRED")
            /\ UNCHANGED <<attempts, nver, pc, call>>
       ELSE IF lk.locked
       THEN /\ ret' = [reject("LOCKED") EXCEPT
                            !.remaining = getLockoutRemaining(lk.store, h, now)]
            /\ attempts' = lk.store
            /\ UNCHANGED <<nver, pc, call>>
       ELSE IF session = <<>>
       THEN /\ ret' = reject("NO_SESSION")
            /\ attempts' = lk.store
            /\ UNCHANGED <<nver, pc, call>>
       ELSE IF session[1].txnId # txnId
       THEN /\ ret' = reject("TXN_MISMATCH")
            /\ attempts' = lk.store
            /\ UNCHANGED <<nver, pc, call>>
       ELSE /\ nver < MaxVerifies
            /\ nver' = nver + 1
            /\ attempts' = lk.store
            /\ pc' = [pc EXCEPT ![p] = "ver_post"]
            /\ call' = [call EXCEPT ![p] = [NoCall EXCEPT !.op = "verify", !.h = h,
                                                          !.txn = txnId, !.otp = otp]]
            /\ ret' = reject("PENDING")
    /\ UNCHANGED <<clock, sessions, nextTxn, lastInit, wrong, thirdAt, issued, notAadhaar>>

handleSuccess(p, outcome) ==
    LET h == call[p].h
        txnId == call[p].txn
    IN /\ sessions' = clearSession(sessions, h)
       /\ attempts' = resetAttempts(attempts, h)
       /\ ret' = [NoRet EXCEPT !.op = "verify", !.h = h, !.txn = txnId, !.res = "SUCCESS",
                               !.outcome = outcome, !.otp = call[p].otp]
       /\ issued' = MapSet(issued, txnId, IF MapHas(issued, txnId) THEN issued[txnId] + 1 ELSE 1)
       /\ wrong' = MapDelete(wrong, h)
       /\ thirdAt' = MapDelete(thirdAt, h)

handleFailure(p, outcome) ==
    LET h == call[p].h
        r == incrementFailed(attempts, h, now)
        k == IF MapHas(wrong, h) THEN wrong[h] + 1 ELSE 1
    IN /\ attempts' = r.store
       /\ ret' = [NoRet EXCEPT !.op = "verify", !.h = h, !.txn = call[p].txn,
                     !.res = IF r.locked THEN "LOCKED_NOW" ELSE "OTP_INVALID",
                     !.remaining = IF r.locked THEN getLockoutRemaining(r.store, h, now) ELSE 0,
                     !.attemptsLeft = r.attemptsLeft,
                     !.locked = r.locked,
                     !.outcome = outcome, !.otp = call[p].otp]
       /\ wrong' = MapSet(wrong, h, k)
       /\ thirdAt' = IF k = maxAttempts THEN MapSet(thirdAt, h, now) ELSE thirdAt
       /\ UNCHANGED <<sessions, issued>>

\* a verifyOtp that accepts the test OTP whatever the backend answered
verifyResume_testOtpAlways(p, outcome) ==
    /\ pc[p] = "ver_post"
    /\ IF outcome = "ret_y" \/ call[p].otp = TEST_OTP THEN handleSuccess(p, outcome)
       ELSE handleFailure(p, outcome)
    /\ pc' = [pc EXCEPT ![p] = "idle"]
    /\ call' = [call EXCEPT ![p] = NoCall]
    /\ UNCHANGED <<clock, nextTxn, nver, lastInit, notAadhaar>>

\* The resumption of verifyOtp after its axios.post settles.
verifyResume(p, outcome) ==
    /\ pc[p] = "ver_post"
    /\ IF outcome = "ret_y" THEN handleSuccess(p, outcome)
       ELSE IF outcome = "ret_n" THEN handleFailure(p, outcome)
       ELSE IF call[p].otp = TEST_OTP THEN handleSuccess(p, outcome)
       ELSE handleFailure(p, outcome)
    /\ pc' = [pc EXCEPT ![p] = "idle"]
    /\ call' = [call EXCEPT ![p] = NoCall]
    /\ UNCHANGED <<clock, nextTxn, nver, lastInit, notAadhaar>>

TxnInputs == 0..MaxTxn

\* the members of the object initiateOtp / verifyOtp return
ResultKeys(r) ==
    IF r.op = "initiate" /\ r.res = "OK" THEN { "success", "txnId", "message" }
    ELSE IF r.op = "verify" /\ r.res = "SUCCESS" THEN { "success", "token", "message" }
    ELSE IF r.op = "none" THEN {}
    ELSE { "success", "message" }

\* ═══ Consent service ════════════════════════════════════════════════════
VALID_FI_TYPES == <<"DEPOSIT", "UPI", "GST", "UTILITY", "SOCIAL">>
VALID_DATA_LIFE_UNITS == <<"MONTH", "YEAR", "DAY", "INF">>
VALID_STATUSES == <<"ACTIVE", "REVOKED", "PAUSED", "EXPIRED">>

Range(f) == { f[i] : i \in DOMAIN f }

\* JavaScript values of a request body: a type tag and the value.
\* Dates: 0 is a missing field, -1 a string Date cannot parse, else the instant.
JsStr(v) == [type |-> "string", val |-> v]
JsUndefined == [type |-> "undefined", val |-> ""]
JsNum(n) == [type |-> "number", num |-> n]
truthy(x) == \/ x.type = "string" /\ x.val # ""
             \/ x.type = "number" /\ x.num # 0

goodPayload(u) ==
    [userReferenceId |-> JsStr(u),
     fiTypes |-> [isArray |-> TRUE, items |-> <<"DEPOSIT">>],
     dataRange |-> [isObject |-> TRUE, from |-> 10, to |-> 20],
     dataLife |-> [isObject |-> TRUE, unit |-> "MONTH", value |-> JsNum(6)]]
Users == { "u1", "u2" }
Payloads == { goodPayload(u) : u \in Users } \cup
            { [goodPayload("u1") EXCEPT !.fiTypes.items = <<>>] }

\* request bodies for create alone: each field right or wrong on its own, and
\* two bodies wrong in every field
CreatePayload(u, f, r, l) ==
    [userReferenceId |-> u,
     fiTypes |-> [isArray |-> TRUE, items |-> f],
     dataRange |-> [isObject |-> TRUE, from |-> r[1], to |-> r[2]],
     dataLife |-> [isObject |-> TRUE, unit |-> l[1], value |-> JsNum(l[2])]]
CreatePayloads ==
    LET userIds == { JsStr("u1"), JsStr(""), JsNum(7), JsUndefined }
        fiTypes == { <<t>> : t \in { "DEPOSIT", "UPI", "GST", "UTILITY", "SOCIAL",
                                      "TERM_DEPOSIT", "RECURRING_DEPOSIT", "MUTUAL_FUNDS",
                                      "SIP", "CRYPTO" } }
                   \cup { <<>>, <<"UPI", "GST">>, <<"DEPOSIT", "SIP">>, <<"DEPOSIT", "CRYPTO">> }
        ranges == { <<10, 20>>, <<-1, 20>>, <<10, -1>>, <<20, 10>>, <<10, 10>> }
        lives == { <<"MONTH", 6>>, <<"INF", 0>>, <<"WEEK", 6>>, <<"DAY", -1>> }
    IN { CreatePayload(u, <<"DEPOSIT">>, <<10, 20>>, <<"MONTH", 6>>) : u \in userIds }
       \cup { CreatePayload(JsStr("u1"), f, <<10, 20>>, <<"MONTH", 6>>) : f \in fiTypes }
       \cup { CreatePayload(JsStr("u1"), <<"DEPOSIT">>, r, <<"MONTH", 6>>) : r \in ranges }
       \cup { CreatePayload(JsStr("u1"), <<"DEPOSIT">>, <<10, 20>>, l) : l \in lives }
       \cup { CreatePayload(JsStr(""), <<"CRYPTO">>, <<20, 10>>, <<"WEEK", -1>>),
              CreatePayload(JsNum(7), <<>>, <<-1, -1>>, <<"YEAR", -1>>) }

\* validateConsentPayload comparing the range with > where the code has >=
validateConsentPayload_after(payload) ==
    LET e1 == IF ~truthy(payload.userReferenceId) \/ payload.userReferenceId.type # "string"
              THEN <<"userReferenceId">> ELSE <<>>
        invalid == SelectSeq(payload.fiTypes.items, LAMBDA t : t \notin Range(VALID_FI_TYPES))
        e2 == IF ~payload.fiTypes.isArray \/ Len(payload.fiTypes.items) = 0
              THEN <<"fiTypes">>
              ELSE IF Len(invalid) > 0 THEN <<"fiTypes.invalid">> ELSE <<>>
        dr == payload.dataRange
        e3 == IF ~dr.isObject THEN <<"dataRange">>
              ELSE (IF dr.from = 0 THEN <<"dataRange.from">> ELSE <<>>)
                \o (IF dr.to = 0 THEN <<"dataRange.to">> ELSE <<>>)
                \o (IF dr.from # 0 /\ dr.to # 0
                    THEN (IF dr.from = -1 THEN <<"dataRange.from.invalid">> ELSE <<>>)
                      \o (IF dr.to = -1 THEN <<"dataRange.to.invalid">> ELSE <<>>)
                      \o (IF dr.from # -1 /\ dr.to # -1 /\ dr.from > dr.to
                          THEN <<"dataRange.order">> ELSE <<>>)
                    ELSE <<>>)
        dl == payload.dataLife
        e4 == IF ~dl.isObject THEN <<"dataLife">>
              ELSE (IF dl.unit = "" \/ dl.unit \notin Range(VALID_DATA_LIFE_UNITS)
                    THEN <<"dataLife.unit">> ELSE <<>>)
                \o (IF dl.value.type # "number" \/ dl.value.num < 0
                    THEN <<"dataLife.value">> ELSE <<>>)
        errors == e1 \o e2 \o e3 \o e4
    IN [valid |-> Len(errors) = 0, errors |-> errors]

\* validateConsentPayload: the list of errors, in the order the code pushes them
validateConsentPayload(payload) ==
    LET e1 == IF ~truthy(payload.userReferenceId) \/ payload.userReferenceId.type # "string"
              THEN <<"userReferenceId">> ELSE <<>>
        invalid == SelectSeq(payload.fiTypes.items, LAMBDA t : t \notin Range(VALID_FI_TYPES))
        e2 == IF ~payload.fiTypes.isArray \/ Len(payload.fiTypes.items) = 0
              THEN <<"fiTypes">>
              ELSE IF Len(invalid) > 0 THEN <<"fiTypes.invalid">> ELSE <<>>
        dr == payload.dataRange
        e3 == IF ~dr.isObject THEN <<"dataRange">>
              ELSE (IF dr.from = 0 THEN <<"dataRange.from">> ELSE <<>>)
                \o (IF dr.to = 0 THEN <<"dataRange.to">> ELSE <<>>)
                \o (IF dr.from # 0 /\ dr.to # 0
                    THEN (IF dr.from = -1 THEN <<"dataRange.from.invalid">> ELSE <<>>)
                      \o (IF dr.to = -1 THEN <<"dataRange.to.invalid">> ELSE <<>>)
                      \o (IF dr.from # -1 /\ dr.to # -1 /\ dr.from >= dr.to
                          THEN <<"dataRange.order">> ELSE <<>>)
                    ELSE <<>>)
        dl == payload.dataLife
        e4 == IF ~dl.isObject THEN <<"dataLife">>
              ELSE (IF dl.unit = "" \/ dl.unit \notin Range(VALID_DATA_LIFE_UNITS)
                    THEN <<"dataLife.unit">> ELSE <<>>)
                \o (IF dl.value.type # "number" \/ dl.value.num < 0
                    THEN <<"dataLife.value">> ELSE <<>>)
        errors == e1 \o e2 \o e3 \o e4
    IN [valid |-> Len(errors) = 0, errors |-> errors]

\* Consent ids are naturals standing for UUID strings; 0 stands for a string
\* that is no UUID, MaxConsents + 1 for a UUID that is never handed out.
isValidUuid(id) == id # 0
IdInputs == 0..(MaxConsents + 1)

\* createConsent preparing its record with the status left PENDING
newRecord_pending(consentId, payload, t) ==
    [consentId |-> consentId,
     userReferenceId |-> payload.userReferenceId.val,
     status |-> "PENDING",
     fiTypes |-> payload.fiTypes.items,
     dataRange |-> [from |-> payload.dataRange.from, to |-> payload.dataRange.to],
     dataLife |-> [unit |-> payload.dataLife.unit, value |-> payload.dataLife.value.num],
     consentArtefact |-> [consentId |-> consentId, status |-> "ACTIVE",
                          createTimestamp |-> t],
     createdAt |-> t]

\* the record createConsent prepares (with the artefact's own status field)
newRecord(consentId, payload, t) ==
    [consentId |-> consentId,
     userReferenceId |-> payload.userReferenceId.val,
     status |-> "ACTIVE",
     fiTypes |-> payload.fiTypes.items,
     dataRange |-> [from |-> payload.dataRange.from, to |-> payload.dataRange.to],
     dataLife |-> [unit |-> payload.dataLife.unit, value |-> payload.dataLife.value.num],
     consentArtefact |-> [consentId |-> consentId, status |-> "ACTIVE",
                          createTimestamp |-> t],
     createdAt |-> t]

\* ─── consentModel.js (PostgreSQL); revoked_at 0 is NULL ─────────────────
insertConsent(d, consent) ==
    MapSet(d, consent.consentId,
           [consent_id |-> consent.consentId,
            user_reference_id |-> consent.userReferenceId,
            status |-> consent.status,
            fi_types |-> consent.fiTypes,
            data_range |-> consent.dataRange,
            data_life |-> consent.dataLife,
            consent_artefact |-> consent.consentArtefact,
            created_at |-> consent.createdAt,
            updated_at |-> consent.createdAt,
            revoked_at |-> 0])

getConsentById(d, consentId) == IF MapHas(d, consentId) THEN <<d[consentId]>> ELSE <<>>

\* SELECT ... ORDER BY created_at DESC: every order of the rows that is sorted
getConsentsByUser(d, u) ==
    LET ids == { i \in DOMAIN d : d[i].user_reference_id = u }
    IN { [k \in 1..Cardinality(ids) |-> d[f[k]]] :
           f \in { g \in [1..Cardinality(ids) -> ids] :
                     /\ \A i, j \in 1..Cardinality(ids) : i # j => g[i] # g[j]
                     /\ \A i, j \in 1..Cardinality(ids) :
                           i < j => d[g[i]].created_at >= d[g[j]].created_at } }

\* UPDATE ... WHERE consent_id = $1 AND status = 'ACTIVE' RETURNING *
dbRevokeConsent(d, consentId, t) ==
    IF MapHas(d, consentId) /\ d[consentId].status = "ACTIVE"
    THEN LET row == [d[consentId] EXCEPT !.status = "REVOKED", !.revoked_at = t,
                                         !.updated_at = t]
         IN [store |-> MapSet(d, consentId, row), rows |-> <<row>>]
    ELSE [store |-> d, rows |-> <<>>]

\* ─── memory fallback ────────────────────────────────────────────────────
memFind(ms, consentId) ==
    LET hits == SelectSeq(ms, LAMBDA c : c.consentId = consentId)
    IN IF Len(hits) = 0 THEN <<>> ELSE <<hits[1]>>
memFilter(ms, u) == SelectSeq(ms, LAMBDA c : c.userReferenceId = u)
\* findIndex matching on the consentId alone
memFindIndex_anyStatus(ms, consentId) ==
    LET idxs == { i \in 1..Len(ms) : ms[i].consentId = consentId }
    IN IF idxs = {} THEN 0 ELSE CHOOSE i \in idxs : \A j \in idxs : i <= j
\* findIndex(consentId matches and status ACTIVE): 0 stands for -1
memFindIndexActive(ms, consentId) ==
    LET idxs == { i \in 1..Len(ms) : ms[i].consentId = consentId /\ ms[i].status = "ACTIVE" }
    IN IF idxs = {} THEN 0 ELSE CHOOSE i \in idxs : \A j \in idxs : i <= j
\* the record after memoryStore[idx].status = 'REVOKED' and .revokedAt = now
memRevoked(c, t) ==
    [consentId |-> c.consentId, userReferenceId |-> c.userReferenceId,
     status |-> "REVOKED", fiTypes |-> c.fiTypes, dataRange |-> c.dataRange,
     dataLife |-> c.dataLife, consentArtefact |-> c.consentArtefact,
     createdAt |-> c.createdAt, revokedAt |-> t]
\* the two assignments made on a copy of the element: the list keeps the old one
memRevokeAt_copy(ms, idx, t) == ms
\* the two assignments are made in place, on the element of the list
memRevokeAt(ms, idx, t) == [ms EXCEPT ![idx] = memRevoked(ms[idx], t)]

NoCCall == [op |-> "none", id |-> 0, user |-> "", rec |-> <<>>, late |-> FALSE,
            known |-> FALSE, listed |-> {}, payload |-> <<>>]
NoCRet == [op |-> "none", id |-> 0, user |-> "", res |-> "none", data |-> <<>>,
           late |-> FALSE, known |-> FALSE, listed |-> {}, payload |-> <<>>,
           dbError |-> FALSE, nonActive |-> FALSE]

CInit ==
    /\ db = EmptyMap
    /\ memoryStore = <<>>
    /\ useMemory = FALSE
    /\ ipc = "none"
    /\ nextConsent = 1
    /\ cpc = [p \in Procs |-> "idle"]
    /\ ccall = [p \in Procs |-> NoCCall]
    /\ cret = NoCRet
    /\ seenRevoked = {}
    /\ createdOk = {}

\* history: is the consent stored anywhere, and with which status
Stored(d, ms, id) == MapHas(d, id) \/ memFind(ms, id) # <<>>
StoredStatus(d, ms, id) == IF MapHas(d, id) THEN d[id].status ELSE memFind(ms, id)[1].status

\* ─── init ───────────────────────────────────────────────────────────────
init ==
    /\ ipc = "none"
    /\ ipc' = "wait"
    /\ cret' = NoCRet
    /\ UNCHANGED <<clock, db, memoryStore, useMemory, nextConsent, cpc, ccall,
                   seenRevoked, createdOk, notConsent>>

\* initTable resolved: true when CREATE TABLE went through, false when it threw
initResume(dbReady) ==
    /\ ipc = "wait"
    /\ ipc' = "done"
    /\ useMemory' = IF ~dbReady THEN TRUE ELSE useMemory
    /\ cret' = NoCRet
    /\ UNCHANGED <<clock, db, memoryStore, nextConsent, cpc, ccall,
                   seenRevoked, createdOk, notConsent>>

\* ─── createConsent ──────────────────────────────────────────────────────
createReturn(record, payload) ==
    /\ cret' = [NoCRet EXCEPT !.op = "create", !.id = record.consentId, !.res = "OK",
                   !.payload = <<payload>>,
                   !.data = <<[consentId |-> record.consentId, status |-> "ACTIVE",
                               createdAt |-> record.createdAt,
                               consentArtefact |-> record.consentArtefact]>>]
    /\ createdOk' = createdOk \cup {record.consentId}

createConsent(p, payload) ==
    /\ cpc[p] = "idle"
    /\ LET validation == validateConsentPayload(payload)
           record == newRecord(nextConsent, payload, now)
       IN
       IF ~validation.valid
       THEN /\ cret' = [NoCRet EXCEPT !.op = "create", !.res = "VALIDATION",
                                      !.payload = <<payload>>,
                                      !.data = validation.errors]
            /\ UNCHANGED <<memoryStore, nextConsent, cpc, ccall, createdOk>>
       ELSE /\ nextConsent <= MaxConsents
            /\ nextConsent' = nextConsent + 1
            /\ IF useMemory
               THEN /\ memoryStore' = Append(memoryStore, record)
                    /\ createReturn(record, payload)
                    /\ UNCHANGED <<cpc, ccall>>
               ELSE /\ cpc' = [cpc EXCEPT ![p] = "insert_wait"]
                    /\ ccall' = [ccall EXCEPT ![p] = [NoCCall EXCEPT !.op = "create",
                                     !.id = record.consentId, !.rec = <<record>>,
                                     !.payload = <<payload>>]]
                    /\ cret' = NoCRet
                    /\ UNCHANGED <<memoryStore, createdOk>>
    /\ UNCHANGED <<clock, db, useMemory, ipc, seenRevoked, notConsent>>

\* insertConsent resolved
createInsertOk(p) ==
    /\ cpc[p] = "insert_wait"
    /\ db' = insertConsent(db, ccall[p].rec[1])
    /\ createReturn(ccall[p].rec[1], ccall[p].payload[1])
    /\ cpc' = [cpc EXCEPT ![p] = "idle"]
    /\ ccall' = [ccall EXCEPT ![p] = NoCCall]
    /\ UNCHANGED <<clock, memoryStore, useMemory, ipc, nextConsent, seenRevoked, notConsent>>

\* insertConsent threw: the record goes to memory and the service switches over
createInsertFail(p) ==
    /\ cpc[p] = "insert_wait"
    /\ memoryStore' = Append(memoryStore, ccall[p].rec[1])
    /\ useMemory' = TRUE
    /\ createReturn(ccall[p].rec[1], ccall[p].payload[1])
    /\ cpc' = [cpc EXCEPT ![p] = "idle"]
    /\ ccall' = [ccall EXCEPT ![p] = NoCCall]
    /\ UNCHANGED <<clock, db, ipc, nextConsent, seenRevoked, notConsent>>

\* ─── getConsent ─────────────────────────────────────────────────────────
getReturn(consentId, record, late, known, dbError) ==
    /\ cret' = [NoCRet EXCEPT !.op = "get", !.id = consentId,
                   !.res = IF record = <<>> THEN "NOT_FOUND" ELSE "OK",
                   !.data = record, !.late = late, !.known = known, !.dbError = dbError]
    /\ seenRevoked' = IF record # <<>> /\ record[1].status = "REVOKED"
                      THEN seenRevoked \cup {consentId} ELSE seenRevoked

getConsent(p, consentId) ==
    /\ cpc[p] = "idle"
    /\ IF ~isValidUuid(consentId)
       THEN /\ cret' = [NoCRet EXCEPT !.op = "get", !.id = consentId, !.res = "INVALID_UUID"]
            /\ UNCHANGED <<cpc, ccall, seenRevoked>>
       ELSE IF useMemory
       THEN /\ getReturn(consentId, memFind(memoryStore, consentId),
                         consentId \in seenRevoked, consentId \in createdOk, FALSE)
            /\ UNCHANGED <<cpc, ccall>>
       ELSE /\ cpc' = [cpc EXCEPT ![p] = "select_wait"]
            /\ ccall' = [ccall EXCEPT ![p] = [NoCCall EXCEPT !.op = "get", !.id = consentId,
                                                 !.late = consentId \in seenRevoked,
                                                 !.known = consentId \in createdOk]]
            /\ cret' = NoCRet
            /\ UNCHANGED seenRevoked
    /\ UNCHANGED <<clock, db, memoryStore, useMemory, ipc, nextConsent, createdOk, notConsent>>

\* getConsentById resolved (dbOk) or threw (the catch reads the memory list)
getResume(p, dbOk) ==
    /\ cpc[p] = "select_wait"
    /\ getReturn(ccall[p].id,
                 IF dbOk THEN getConsentById(db, ccall[p].id)
                         ELSE memFind(memoryStore, ccall[p].id),
                 ccall[p].late, ccall[p].known, ~dbOk)
    /\ cpc' = [cpc EXCEPT ![p] = "idle"]
    /\ ccall' = [ccall EXCEPT ![p] = NoCCall]
    /\ UNCHANGED <<clock, db, memoryStore, useMemory, ipc, nextConsent, createdOk, notConsent>>

\* ─── getUserConsents ────────────────────────────────────────────────────
getUserConsents(p, userReferenceId) ==
    /\ cpc[p] = "idle"
    /\ IF userReferenceId = ""
       THEN /\ cret' = [NoCRet EXCEPT !.op = "list", !.res = "USER_REQUIRED"]
            /\ UNCHANGED <<cpc, ccall>>
       ELSE IF useMemory
       THEN /\ cret' = [NoCRet EXCEPT !.op = "list", !.res = "OK", !.user = userReferenceId,
                                      !.listed = createdOk,
                                      !.data = memFilter(memoryStore, userReferenceId)]
            /\ UNCHANGED <<cpc, ccall>>
       ELSE /\ cpc' = [cpc EXCEPT ![p] = "list_wait"]
            /\ ccall' = [ccall EXCEPT ![p] = [NoCCall EXCEPT !.op = "list",
                                     !.user = userReferenceId, !.listed = createdOk]]
            /\ cret' = NoCRet
    /\ UNCHANGED <<clock, db, memoryStore, useMemory, ipc, nextConsent,
                   seenRevoked, createdOk, notConsent>>

getUserResume(p, dbOk) ==
    /\ cpc[p] = "list_wait"
    /\ \E records \in (IF dbOk THEN getConsentsByUser(db, ccall[p].user)
                               ELSE { memFilter(memoryStore, ccall[p].user) }) :
          cret' = [NoCRet EXCEPT !.op = "list", !.res = "OK", !.user = ccall[p].user,
                                 !.listed = ccall[p].listed,
                                 !.data = records, !.dbError = ~dbOk]
    /\ cpc' = [cpc EXCEPT ![p] = "idle"]
    /\ ccall' = [ccall EXCEPT ![p] = NoCCall]
    /\ UNCHANGED <<clock, db, memoryStore, useMemory, ipc, nextConsent,
                   seenRevoked, createdOk, notConsent>>

\* ─── revokeConsent ──────────────────────────────────────────────────────
revokeReturn(consentId, res, record, known, dbError) ==
    /\ cret' = [NoCRet EXCEPT !.op = "revoke", !.id = consentId, !.res = res,
                   !.data = record, !.known = known, !.dbError = dbError,
                   !.nonActive = /\ Stored(db, memoryStore, consentId)
                                 /\ StoredStatus(db, memoryStore, consentId) # "ACTIVE"]
    /\ seenRevoked' = IF res = "OK" THEN seenRevoked \cup {consentId} ELSE seenRevoked

revokeConsent(p, consentId) ==
    /\ cpc[p] = "idle"
    /\ IF ~isValidUuid(consentId)
       THEN /\ cret' = [NoCRet EXCEPT !.op = "revoke", !.id = consentId,
                                      !.res = "INVALID_UUID"]
            /\ UNCHANGED <<memoryStore, cpc, ccall, seenRevoked>>
       ELSE IF useMemory
       THEN LET idx == memFindIndexActive(memoryStore, consentId) IN
            /\ IF idx = 0
               THEN /\ revokeReturn(consentId, "NOT_FOUND", <<>>, consentId \in createdOk, FALSE)
                    /\ UNCHANGED memoryStore
               ELSE /\ memoryStore' = memRevokeAt(memoryStore, idx, now)
                    /\ revokeReturn(consentId, "OK",
                                    <<memRevoked(memoryStore[idx], now)>>,
                                    consentId \in createdOk, FALSE)
            /\ UNCHANGED <<cpc, ccall>>
       ELSE /\ cpc' = [cpc EXCEPT ![p] = "update_wait"]
            /\ ccall' = [ccall EXCEPT ![p] = [NoCCall EXCEPT !.op = "revoke",
                                     !.id = consentId, !.known = consentId \in createdOk]]
            /\ cret' = NoCRet
            /\ UNCHANGED <<memoryStore, seenRevoked>>
    /\ UNCHANGED <<clock, db, useMemory, ipc, nextConsent, createdOk, notConsent>>

\* consentModel.revokeConsent resolved
revokeUpdateOk(p) ==
    /\ cpc[p] = "update_wait"
    /\ LET r == dbRevokeConsent(db, ccall[p].id, now) IN
       /\ db' = r.store
       /\ IF r.rows = <<>>
          THEN revokeReturn(ccall[p].id, "NOT_FOUND", <<>>, ccall[p].known, FALSE)
          ELSE revokeReturn(ccall[p].id, "OK", r.rows, ccall[p].known, FALSE)
    /\ cpc' = [cpc EXCEPT ![p] = "idle"]
    /\ ccall' = [ccall EXCEPT ![p] = NoCCall]
    /\ UNCHANGED <<clock, memoryStore, useMemory, ipc, nextConsent, createdOk, notConsent>>

\* consentModel.revokeConsent threw
revokeUpdateFail(p) ==
    /\ cpc[p] = "update_wait"
    /\ revokeReturn(ccall[p].id, "REVOKE_FAILED", <<>>, ccall[p].known, TRUE)
    /\ cpc' = [cpc EXCEPT ![p] = "idle"]
    /\ ccall' = [ccall EXCEPT ![p] = NoCCall]
    /\ UNCHANGED <<clock, db, memoryStore, useMemory, ipc, nextConsent, createdOk, notConsent>>

UserInputs == Users \cup {""}


\* ═══ AES-256-GCM of FI data (fiDecryption.js) ═══════════════════════════
\* Buffers are sequences of bytes. A byte is the value the cipher wrote there
\* and the set of its bits that were flipped since. AES-GCM itself is taken as
\* ideal: the bytes it writes name the key, IV and data they were made from,
\* so no other key, IV or data yields them. Base64 text is written as the
\* buffer it decodes to.
IV_LENGTH == 12
TAG_LENGTH == 16
KeyBytes == 32

Byte(v) == [v |-> v, x |-> {}]
FlipBit(b, j) == [b EXCEPT !.x = (b.x \ {j}) \cup ({j} \ b.x)]
randomBytes(n, seed) == [i \in 1..n |-> Byte(<<"rnd", seed, i>>)]
SessionKey(id, len) == [id |-> id, len |-> len]

\* cipher.update + cipher.final, cipher.getAuthTag
GcmCiphertext(key, iv, plain) ==
    [i \in 1..Len(plain) |-> Byte(<<"ct", key, iv, i, plain[i]>>)]
GcmAuthTag(key, iv, ct) ==
    [j \in 1..TAG_LENGTH |-> Byte(<<"tag", key, iv, ct, j, 0>>)]
\* decipher.update + decipher.final: the plaintext, or <<"throw">> when the tag
\* does not authenticate the ciphertext under this key and IV
GcmOpen(key, iv, ct, authTag) ==
    IF authTag = GcmAuthTag(key, iv, ct)
    THEN <<"ok", [i \in 1..Len(ct) |-> ct[i].v[5]]>>
    ELSE <<"throw">>

encryptTestData(plaintext, sessionKey, seed) ==
    LET iv == randomBytes(IV_LENGTH, seed)
        encrypted == GcmCiphertext(sessionKey, iv, plaintext)
        authTag == GcmAuthTag(sessionKey, iv, encrypted)
    IN iv \o encrypted \o authTag

decryptFiData(encrypted, key) ==
    IF key.len # KeyBytes
    THEN [success |-> FALSE, data |-> <<>>, error |-> "key length"]
    ELSE IF Len(encrypted) < IV_LENGTH + TAG_LENGTH + 1
    THEN [success |-> FALSE, data |-> <<>>, error |-> "too short"]
    ELSE LET iv == SubSeq(encrypted, 1, IV_LENGTH)
             authTag == SubSeq(encrypted, Len(encrypted) - TAG_LENGTH + 1, Len(encrypted))
             ciphertext == SubSeq(encrypted, IV_LENGTH + 1, Len(encrypted) - TAG_LENGTH)
             decrypted == GcmOpen(key, iv, ciphertext, authTag)
         IN IF decrypted[1] = "ok"
            THEN [success |-> TRUE, data |-> decrypted[2], error |-> ""]
            ELSE [success |-> FALSE, data |-> <<>>, error |-> "decryption failed"]

\* inputs: 32-byte keys and one key of the wrong size; short plaintexts
Keys32 == { SessionKey(1, KeyBytes), SessionKey(2, KeyBytes) }
RECURSIVE SeqsUpTo(_, _)
SeqsUpTo(S, n) ==
    IF n = 0 THEN { <<>> }
    ELSE LET shorter == SeqsUpTo(S, n - 1)
         IN shorter \cup { Append(q, c) : q \in { r \in shorter : Len(r) = n - 1 }, c \in S }
Plaintexts == SeqsUpTo({ "a", "b" }, MaxPlain)

NoGcm == [key |-> SessionKey(0, 0), plain |-> <<>>, blob |-> <<>>, sealed |-> FALSE,
          flips |-> 0, opened |-> FALSE, openKey |-> SessionKey(0, 0),
          out |-> [success |-> FALSE, data |-> <<>>, error |-> ""]]

gcmSeal(seed) ==
    /\ ~gcm.sealed
    /\ gcm' = [gcm EXCEPT !.blob = encryptTestData(gcm.plain, gcm.key, seed),
                          !.sealed = TRUE]
    /\ UNCHANGED <<clock, astate, cstate, fstate, jws, gst, util, analysers>>

\* the blob in transit: one bit of a ciphertext or tag byte is flipped
gcmFlip(i, j) ==
    /\ gcm.sealed /\ ~gcm.opened
    /\ gcm.flips < MaxFlips
    /\ i \in (IV_LENGTH + 1)..Len(gcm.blob)
    /\ gcm' = [gcm EXCEPT !.blob[i] = FlipBit(gcm.blob[i], j), !.flips = gcm.flips + 1]
    /\ UNCHANGED <<clock, astate, cstate, fstate, jws, gst, util, analysers>>

gcmOpen(key) ==
    /\ gcm.sealed /\ ~gcm.opened
    /\ gcm' = [gcm EXCEPT !.opened = TRUE, !.openKey = key,
                          !.out = decryptFiData(gcm.blob, key)]
    /\ UNCHANGED <<clock, astate, cstate, fstate, jws, gst, util, analysers>>

\* ═══ Detached JWS (jwsSigner.js) ════════════════════════════════════════
\* Strings are kept as terms: base64urlEncode(x) and JSON.stringify(x) wrap x,
\* two of them are equal exactly when the strings are. RSA and HMAC are ideal:
\* a signature names the key and the input it was made over.
base64urlEncode(data) == <<"b64url", data>>
base64Decode(text) == text[2]
\* A string is <<"text", s>>, or <<"json", members>> when it is the JSON text
\* of an object. JSON.stringify of an object (a sequence of <<name, value>>)
\* leaves out the members whose value is undefined.
JSONstringify(obj) == <<"json", SelectSeq(obj, LAMBDA m : m[2] # "undefined")>>
payloadString(payload) == IF payload[1] = "string" THEN payload[2] ELSE JSONstringify(payload[2])

RsaSign(privateKey, input) == <<"rsa", privateKey, input>>
RsaVerify(publicKey, input, signature) == signature = <<"rsa", publicKey, input>>
Hmac(secret, input) == <<"hmac", secret, input>>

\* createDetachedJws; pemReadable: readFileSync of the private key succeeds.
\* The detached token is kept as its three dot-separated parts.
createDetachedJws(payload, pemReadable) ==
    LET header == <<"object", << <<"alg", "RS256">>, <<"kid", "fiu-client-001">>,
                                 <<"b64", "false">>, <<"crit", "b64">> >> >>
        encodedHeader == base64urlEncode(payloadString(header))
        encodedPayload == base64urlEncode(payloadString(payload))
        signingInput == <<encodedHeader, encodedPayload>>
        signature == IF pemReadable THEN RsaSign("fiu", signingInput)
                     ELSE Hmac("jwt.secret", signingInput)
    IN [detachedJws |-> <<encodedHeader, "", base64urlEncode(signature)>>,
        fullJws |-> <<encodedHeader, encodedPayload, base64urlEncode(signature)>>]

\* verifyDetachedJws; publicKeyPath: the key pair whose public PEM the path
\* holds ("fiu" is the signer's), "" when there is no readable file there
verifyDetachedJws(detachedJws, payload, publicKeyPath) ==
    LET encodedHeader == detachedJws[1]
        encodedPayload == base64urlEncode(payloadString(payload))
        signingInput == <<encodedHeader, encodedPayload>>
        signature == base64Decode(detachedJws[3])
    IN IF publicKeyPath = "" THEN FALSE
       ELSE RsaVerify(publicKeyPath, signingInput, signature)

JwsPayloads ==
    { <<"object", << <<"a", v>>, <<"b", w>> >> >> : v, w \in { "1", "2", "undefined" } }
    \cup { <<"object", << <<"a", v>> >> >> : v \in { "1", "2", "undefined" } }
    \cup { <<"string", <<"text", s>> >> : s \in { "", "x" } }
    \cup { <<"string", JSONstringify(<< <<"a", "1">> >>)>> }

NoJws == [payload |-> <<>>, signed |-> FALSE, pem |-> FALSE, token |-> <<>>,
          verified |-> FALSE, against |-> <<>>, path |-> "", ok |-> FALSE]

jwsSign(pemReadable) ==
    /\ ~jws.signed
    /\ jws' = [jws EXCEPT !.signed = TRUE, !.pem = pemReadable,
                          !.token = createDetachedJws(jws.payload, pemReadable).detachedJws]
    /\ UNCHANGED <<clock, astate, cstate, fstate, gcm, gst, util, analysers>>

jwsVerify(payload, publicKeyPath) ==
    /\ jws.signed
    /\ jws' = [jws EXCEPT !.verified = TRUE, !.against = payload, !.path = publicKeyPath,
                          !.ok = verifyDetachedJws(jws.token, payload, publicKeyPath)]
    /\ UNCHANGED <<clock, astate, cstate, fstate, gcm, gst, util, analysers>>

\* ═══ FI request and FI fetch (fiRequestService, fiFetchService) ═════════
\* uuidv4(): the n-th value; its first 8 characters are its head
Uuid(n) == [head |-> <<"head", n>>, rest |-> n]
slice8(u) == u.head

\* validateFiRequestInput. params: consentId a JavaScript value, fiType a
\* string ("" when absent), from / to a date (0 absent, -1 unparseable).
validateFiRequestInput(params) ==
    LET validFiTypes == { "DEPOSIT", "UPI", "GST", "UTILITY", "SOCIAL", "TERM_DEPOSIT",
                          "RECURRING_DEPOSIT", "MUTUAL_FUNDS", "SIP" }
        errors == (IF ~truthy(params.consentId) \/ params.consentId.type # "string"
                   THEN <<"consentId">> ELSE <<>>)
               \o (IF params.fiType # "" /\ params.fiType \notin validFiTypes
                   THEN <<"fiType">> ELSE <<>>)
               \o (IF params.from = -1 THEN <<"from">> ELSE <<>>)
               \o (IF params.to = -1 THEN <<"to">> ELSE <<>>)
    IN [valid |-> Len(errors) = 0, errors |-> errors]

FiParams(c, f, from, to) == [consentId |-> c, fiType |-> f, from |-> from, to |-> to]
FiRequestInputs ==
    { FiParams(JsStr("c1"), f, 0, 0) : f \in { "", "CRYPTO" } }
    \cup { FiParams(c, "SIP", 10, 20) : c \in { JsStr("c2"), JsStr(""), JsNum(5), JsUndefined } }
    \cup { FiParams(JsStr("c1"), "GST", -1, 20), FiParams(JsStr("c1"), "GST", 10, -1) }

\* what the AA answers to POST /FI/request: <<"error">> when the call throws,
\* else the response body's sessionId and SessionId members ("" when absent)
AaRequestResponses ==
    { <<"error">>, <<"S1", "S2">>, <<"", "S2">>, <<"", "">> }

NoFCall == [op |-> "none", txnid |-> 0, params |-> <<>>, sessionId |-> <<>>, jws |-> <<>>]
NoFRet == [op |-> "none", res |-> "none", txnid |-> 0, sessionId |-> <<>>,
           devMode |-> FALSE, analysed |-> <<>>, encrypted |-> FALSE, decrypted |-> FALSE]

FInit ==
    /\ fiSessions = EmptyMap
    /\ nextUuid = 1
    /\ fpc = [p \in Procs |-> "idle"]
    /\ fcall = [p \in Procs |-> NoFCall]
    /\ fret = NoFRet

\* initiateFiRequest up to its await; pemReadable: the signer finds its key
initiateFiRequest(p, params, pemReadable) ==
    /\ fpc[p] = "idle"
    /\ LET validation == validateFiRequestInput(params)
           txnid == Uuid(nextUuid)
           payload == <<"object", << <<"txnid", ToString(nextUuid)>>,
                                     <<"Consent", params.consentId.val>>,
                                     <<"fiType", IF params.fiType = "" THEN "DEPOSIT"
                                                 ELSE params.fiType>> >> >>
       IN IF ~validation.valid
          THEN /\ fret' = [NoFRet EXCEPT !.op = "request", !.res = "VALIDATION"]
               /\ UNCHANGED <<nextUuid, fpc, fcall>>
          ELSE /\ nextUuid <= MaxUuid
               /\ nextUuid' = nextUuid + 1
               /\ fpc' = [fpc EXCEPT ![p] = "request_post"]
               /\ fcall' = [fcall EXCEPT ![p] =
                      [NoFCall EXCEPT !.op = "request", !.txnid = txnid, !.params = <<params>>,
                                      !.jws = createDetachedJws(payload, pemReadable).detachedJws]]
               /\ fret' = NoFRet
    /\ UNCHANGED <<clock, fiSessions, notFi>>

\* axios.post to /FI/request settled: the session is stored, the call returns
fiRequestResume(p, response) ==
    /\ fpc[p] = "request_post"
    /\ LET txnid == fcall[p].txnid
           params == fcall[p].params[1]
           sessionId == IF response = <<"error">> THEN <<"dev-session-", slice8(txnid)>>
                        ELSE IF response[1] # "" THEN <<response[1]>>
                        ELSE IF response[2] # "" THEN <<response[2]>>
                        ELSE <<>>
       IN /\ fiSessions' = MapSet(fiSessions, txnid,
                 [txnid |-> txnid, sessionId |-> sessionId,
                  consentId |-> params.consentId.val,
                  fiType |-> IF params.fiType = "" THEN "DEPOSIT" ELSE params.fiType,
                  status |-> "PENDING", createdAt |-> now,
                  jwsSignature |-> fcall[p].jws])
          /\ fret' = [NoFRet EXCEPT !.op = "request", !.res = "OK", !.txnid = txnid,
                                    !.sessionId = sessionId,
                                    !.devMode = (response = <<"error">>)]
    /\ fpc' = [fpc EXCEPT ![p] = "idle"]
    /\ fcall' = [fcall EXCEPT ![p] = NoFCall]
    /\ UNCHANGED <<clock, nextUuid, notFi>>

\* what the AA answers to POST /FI/fetch: encryptedFI (a blob, <<>> when
\* absent), _devSessionKey (<<key>>, <<>> when absent), FI (<<data>>, <<>> when
\* absent) and _devMode; threw: the call failed and there is no answer
FiResponse(blob, key, fi, dev) ==
    [threw |-> FALSE, encryptedFI |-> blob, devSessionKey |-> key, FI |-> fi, devMode |-> dev]
SAMPLE_TRANSACTIONS == <<"t">>
createDevModeResponse(seed) ==
    LET sessionKey == SessionKey(<<"rnd", seed>>, KeyBytes)
    IN FiResponse(encryptTestData(SAMPLE_TRANSACTIONS, sessionKey, seed), <<sessionKey>>,
                  <<SAMPLE_TRANSACTIONS>>, TRUE)
AaFetchResponses ==
    LET key == SessionKey(1, KeyBytes)
        sealed == encryptTestData(<<"s">>, key, 1)
        blobs == { <<>>, sealed, [sealed EXCEPT ![IV_LENGTH + 1] = FlipBit(@, 0)],
                   SubSeq(sealed, 1, IV_LENGTH + TAG_LENGTH) }
    IN { [FiResponse(<<>>, <<>>, <<>>, FALSE) EXCEPT !.threw = TRUE] } \cup
       { FiResponse(b, k, fi, FALSE) : b \in blobs,
                                       k \in { <<>>, <<key>>, <<SessionKey(2, KeyBytes)>> },
                                       fi \in { <<>>, << <<"p">> >> } }

\* fetchFiData up to its await; sessionId <<>> stands for a missing one
fetchFiData(p, sessionId) ==
    /\ fpc[p] = "idle"
    /\ IF sessionId = <<>>
       THEN /\ fret' = [NoFRet EXCEPT !.op = "fetch", !.res = "SESSION_REQUIRED"]
            /\ UNCHANGED <<nextUuid, fpc, fcall>>
       ELSE /\ nextUuid <= MaxUuid
            /\ nextUuid' = nextUuid + 1
            /\ fpc' = [fpc EXCEPT ![p] = "fetch_post"]
            /\ fcall' = [fcall EXCEPT ![p] = [NoFCall EXCEPT !.op = "fetch",
                              !.txnid = Uuid(nextUuid), !.sessionId = sessionId]]
            /\ fret' = NoFRet
    /\ UNCHANGED <<clock, fiSessions, notFi>>

\* axios.post to /FI/fetch settled: decrypt, fall back to
\* the plaintext FI member, analyse, return
fetchResume(p, response) ==
    /\ fpc[p] = "fetch_post"
    /\ LET aaResponse == IF response.threw THEN createDevModeResponse(nextUuid)
                         ELSE response
           result == IF aaResponse.encryptedFI # <<>> /\ aaResponse.devSessionKey # <<>>
                     THEN decryptFiData(aaResponse.encryptedFI, aaResponse.devSessionKey[1])
                     ELSE [success |-> FALSE, data |-> <<>>, error |-> ""]
           decryptedData == IF result.success /\ result.data # <<>> THEN <<result.data>>
                            ELSE aaResponse.FI
       IN fret' = [NoFRet EXCEPT !.op = "fetch", !.res = "OK", !.txnid = fcall[p].txnid,
                                 !.sessionId = fcall[p].sessionId,
                                 !.devMode = aaResponse.devMode,
                                 !.analysed = decryptedData,
                                 !.encrypted = aaResponse.encryptedFI # <<>>,
                                 !.decrypted = result.success]
    /\ fpc' = [fpc EXCEPT ![p] = "idle"]
    /\ fcall' = [fcall EXCEPT ![p] = NoFCall]
    /\ UNCHANGED <<clock, fiSessions, nextUuid, notFi>>

\* ═══ GST filing compliance (gstComplianceCalculator.js) ════════════════
\* A Date is <<day number, millisecond of the day>> in local time, which orders
\* as getTime() does. new Date(y, monthIndex, d, h, mi, s) carries a month
\* index past 11 into the next year.
DaysFromCivil(y, m, d) ==
    LET yy == IF m <= 2 THEN y - 1 ELSE y
        era == yy \div 400
        yoe == yy - era * 400
        mp == IF m > 2 THEN m - 3 ELSE m + 9
        doy == (153 * mp + 2) \div 5 + d - 1
        doe == yoe * 365 + yoe \div 4 - yoe \div 100 + doy
    IN era * 146097 + doe - 719468
DateLocal(y, monthIndex, d, h, mi, s, ms) ==
    <<DaysFromCivil(y + monthIndex \div 12, (monthIndex % 12) + 1, d),
      ((h * 60 + mi) * 60 + s) * 1000 + ms>>
DateLE(a, b) == a[1] < b[1] \/ (a[1] = b[1] /\ a[2] <= b[2])

DUE_DAY(returnType) ==
    IF returnType = "GSTR-1" THEN 11 ELSE IF returnType = "GSTR-3B" THEN 20 ELSE 0

\* computeDueDate that leaves the due date in the month of the period
computeDueDate_samePeriod(returnType, filingPeriod) ==
    LET dueDay == IF DUE_DAY(returnType) # 0 THEN DUE_DAY(returnType) ELSE 20
    IN DateLocal(filingPeriod[1], filingPeriod[2] - 1, dueDay, 23, 59, 59, 0)

\* computeDueDate; filingPeriod 'YYYY-MM' is <<year, month>>
computeDueDate(returnType, filingPeriod) ==
    LET year == filingPeriod[1]
        month == filingPeriod[2]
        dueDay == IF DUE_DAY(returnType) # 0 THEN DUE_DAY(returnType) ELSE 20
        dueMonth == IF month + 1 > 12 THEN 1 ELSE month + 1
        dueYear == IF month + 1 > 12 THEN year + 1 ELSE year
    IN DateLocal(dueYear, dueMonth - 1, dueDay, 23, 59, 59, 0)

\* classifyFiling for a filing whose period and date are there and parse;
\* filingDate is the local date and time <<y, m, d, h, mi, s, ms>> of the string
classifyFiling(filing) ==
    LET f == filing.filingDate
        filedDate == DateLocal(f[1], f[2] - 1, f[3], f[4], f[5], f[6], f[7])
        dueDate == computeDueDate(filing.returnType, filing.filingPeriod)
    IN IF DateLE(filedDate, dueDate) THEN "ON_TIME" ELSE "DELAYED"

\* computeDelayDays: max(0, ceil(diffMs / 86400000)); the two dates differ by
\* whole days and less than a day of milliseconds
computeDelayDays(dueDate, filedDate) ==
    LET days == filedDate[1] - dueDate[1]
        ceiled == IF filedDate[2] - dueDate[2] > 0 THEN days + 1 ELSE days
    IN IF ceiled > 0 THEN ceiled ELSE 0

NoGst == [returnType |-> "", filingPeriod |-> <<>>, filingDate |-> <<>>,
          classification |-> "", delayDays |-> 0]

\* the entry calculateCompliance pushes for the filing
gstClassify ==
    /\ gst.classification = ""
    /\ LET f == gst.filingDate
           status == classifyFiling(gst)
           dueDate == computeDueDate(gst.returnType, gst.filingPeriod)
       IN gst' = [gst EXCEPT !.classification = status,
                             !.delayDays = IF status = "DELAYED"
                                           THEN computeDelayDays(dueDate,
                                                  DateLocal(f[1], f[2] - 1, f[3], f[4], f[5], f[6], f[7]))
                                           ELSE 0]
    /\ UNCHANGED <<clock, astate, cstate, fstate, gcm, jws, util, analysers>>

\* ═══ Utility bill reliability (reliabilityCalculator.js, the later of the
\* two copies in the file, which is the one the module exports) ═══════════
\* A bill is [dueDate, paymentDate, paymentStatus]; a date 'YYYY-MM-DD' is its
\* day number, and paymentDate is <<>> when the bill carries none.
MaxBills == 4

\* computeDelayDays of the reliability calculator, for two dates that parse
billDelayDays(dueDate, paymentDate) ==
    IF paymentDate[1] - dueDate > 0 THEN paymentDate[1] - dueDate ELSE 0

classifyPayment(bill) ==
    IF bill.paymentDate = <<>> \/ bill.paymentStatus = "UNPAID" THEN "UNPAID"
    ELSE IF bill.paymentDate[1] <= bill.dueDate THEN "ON_TIME"
    ELSE IF billDelayDays(bill.dueDate, bill.paymentDate) <= 5 THEN "MINOR_DELAY"
    ELSE "MAJOR_DELAY"

billScore(status) ==
    CASE status = "ON_TIME" -> 10
      [] status = "MINOR_DELAY" -> 6
      [] status = "MAJOR_DELAY" -> 2
      [] OTHER -> 0

\* a calculateReliability that analyses the bills in the order given
sortedBills_asGiven(bills) == bills

\* [...bills].sort((a, b) => new Date(a.dueDate) - new Date(b.dueDate)):
\* by due date, oldest first, bills of one due date in the order given
RECURSIVE sortedBills(_)
sortedBills(bills) ==
    IF bills = <<>> THEN <<>>
    ELSE LET front == sortedBills(SubSeq(bills, 1, Len(bills) - 1))
             last == bills[Len(bills)]
             before == SelectSeq(front, LAMBDA b : b.dueDate <= last.dueDate)
             after == SelectSeq(front, LAMBDA b : b.dueDate > last.dueDate)
         IN before \o <<last>> \o after

RECURSIVE sumScores(_)
sumScores(classified) ==
    IF classified = <<>> THEN 0
    ELSE classified[1].score + sumScores(Tail(classified))

\* detectTrend: last3Avg - overallAvg against +1 and -1, in exact arithmetic
\* (both sides multiplied by 3 * length); the doubles of the code give the
\* same answer for every list of up to five bills
detectTrend(classified) ==
    IF Len(classified) < 4 THEN "STABLE"
    ELSE LET n == Len(classified)
             last3 == SubSeq(classified, n - 2, n)
             diff == n * sumScores(last3) - 3 * sumScores(classified)
         IN IF diff > 3 * n THEN "IMPROVING"
            ELSE IF diff < 0 - 3 * n THEN "DECLINING"
            ELSE "STABLE"

\* calculateReliability; reliabilityScore is in hundredths
\* (Math.round(earned / total * 100 * 100) / 100)
calculateReliability(bills) ==
    IF bills = <<>>
    THEN [totalBills |-> 0, onTimePayments |-> 0, minorDelays |-> 0, majorDelays |-> 0,
          unpaidBills |-> 0, reliabilityScore |-> 0, trend |-> "NONE", bills |-> <<>>]
    ELSE LET sorted == sortedBills(bills)
             classified == [i \in 1..Len(sorted) |->
                               [classification |-> classifyPayment(sorted[i]),
                                score |-> billScore(classifyPayment(sorted[i]))]]
             count(status) == Cardinality({i \in 1..Len(classified) :
                                              classified[i].classification = status})
             totalWeight == 10 * Len(sorted)
             earnedWeight == sumScores(classified)
         IN [totalBills |-> Len(bills),
             onTimePayments |-> count("ON_TIME"),
             minorDelays |-> count("MINOR_DELAY"),
             majorDelays |-> count("MAJOR_DELAY"),
             unpaidBills |-> count("UNPAID"),
             reliabilityScore |-> (2 * earnedWeight * 10000 + totalWeight) \div (2 * totalWeight),
             trend |-> detectTrend(classified),
             bills |-> classified]

NoUtil == [bills |-> <<>>, done |-> FALSE, result |-> <<>>]

utilCalculate ==
    /\ ~util.done
    /\ util' = [util EXCEPT !.done = TRUE, !.result = <<calculateReliability(util.bills)>>]
    /\ UNCHANGED <<clock, astate, cstate, fstate, gcm, jws, gst, analysers>>

\* ═══ Behavioural quiz (quizEngine.js, behaviourService.js) ═════════════
QUIZ_SIZE == 5
MAX_TOTAL == 25
STANDARD_OPTIONS == <<"Never", "Rarely", "Sometimes", "Often", "Always">>
\* the questionId of the 20 entries of data/questionPool
QUESTION_POOL ==
    { "BQ01", "BQ02", "BQ03", "BQ04", "BQ05", "BQ06", "BQ07", "BQ08", "BQ09", "BQ10",
      "BQ11", "BQ12", "BQ13", "BQ14", "BQ15", "BQ16", "BQ17", "BQ18", "BQ19", "BQ20" }

\* STANDARD_OPTIONS.indexOf(choice), counted from 0; -1 when absent
indexOf(options, choice) ==
    IF choice \in Range(options)
    THEN (CHOOSE i \in 1..Len(options) : options[i] = choice) - 1
    ELSE -1

\* validateResponses without the check for duplicate ids
validateResponses_noDuplicates(responses) ==
    LET e1 == IF Len(responses) # QUIZ_SIZE THEN <<"length">> ELSE <<>>
        each(r) == (IF ~(truthy(r.id) /\ r.id.type = "string") THEN <<"id">> ELSE <<>>)
                   \o (IF r.choice = "" \/ r.choice \notin Range(STANDARD_OPTIONS)
                       THEN <<"choice">> ELSE <<>>)
                   \o (IF truthy(r.id) /\ ~(r.id.type = "string" /\ r.id.val \in QUESTION_POOL)
                       THEN <<"unknown id">> ELSE <<>>)
        bad == SelectSeq(responses, LAMBDA r : each(r) # <<>>)
        errors == e1 \o (IF bad = <<>> THEN <<>> ELSE each(bad[1]))
    IN [valid |-> Len(errors) = 0, errors |-> errors]

\* validateResponses for an array of { id, choice } objects; a choice is a
\* string, "" when the member is missing; the errors of the first faulty
\* response stand for those of all
validateResponses(responses) ==
    LET e1 == IF Len(responses) # QUIZ_SIZE THEN <<"length">> ELSE <<>>
        ids == { responses[i].id : i \in 1..Len(responses) }
        e2 == IF Cardinality(ids) # Len(responses) THEN <<"duplicate">> ELSE <<>>
        each(r) == (IF ~(truthy(r.id) /\ r.id.type = "string") THEN <<"id">> ELSE <<>>)
                   \o (IF r.choice = "" \/ r.choice \notin Range(STANDARD_OPTIONS)
                       THEN <<"choice">> ELSE <<>>)
                   \o (IF truthy(r.id) /\ ~(r.id.type = "string" /\ r.id.val \in QUESTION_POOL)
                       THEN <<"unknown id">> ELSE <<>>)
        bad == SelectSeq(responses, LAMBDA r : each(r) # <<>>)
        errors == e1 \o e2 \o (IF bad = <<>> THEN <<>> ELSE each(bad[1]))
    IN [valid |-> Len(errors) = 0, errors |-> errors]

\* calculateScore; behaviourScore is in ten-thousandths
\* (Math.round(totalScore / MAX_TOTAL * 10000) / 10000)
RECURSIVE calculateScore(_)
calculateScore(responses) ==
    IF responses = <<>> THEN [totalScore |-> 0, behaviourScore |-> 0]
    ELSE LET rest == calculateScore(Tail(responses))
             totalScore == indexOf(STANDARD_OPTIONS, responses[1].choice) + 1
                              + rest.totalScore
         IN [totalScore |-> totalScore,
             behaviourScore |-> (2 * totalScore * 10000 + MAX_TOTAL) \div (2 * MAX_TOTAL)]

NoQuiz == [responses |-> <<>>, done |-> FALSE, success |-> FALSE, data |-> <<>>]

\* submitQuiz up to the scores it returns
submitQuiz ==
    /\ ~quiz.done
    /\ quiz' = IF ~validateResponses(quiz.responses).valid
               THEN [quiz EXCEPT !.done = TRUE, !.success = FALSE]
               ELSE [quiz EXCEPT !.done = TRUE, !.success = TRUE,
                                 !.data = <<calculateScore(quiz.responses)>>]
    /\ UNCHANGED <<clock, astate, cstate, fstate, gcm, jws, gst, util, flows, nova, upi>>

\* ─── Transaction parser (utils/transactionParser.js) ────────────────────
\* A string the code searches in is a sequence of its characters.
LowerCase == <<"a","b","c","d","e","f","g","h","i","j","k","l","m",
               "n","o","p","q","r","s","t","u","v","w","x","y","z">>
UpperCase == <<"A","B","C","D","E","F","G","H","I","J","K","L","M",
               "N","O","P","Q","R","S","T","U","V","W","X","Y","Z">>

toUpperCase(s) ==
    [i \in DOMAIN s |->
        IF \E k \in DOMAIN LowerCase : LowerCase[k] = s[i]
        THEN UpperCase[CHOOSE k \in DOMAIN LowerCase : LowerCase[k] = s[i]]
        ELSE s[i]]

toLowerCase(s) ==
    [i \in DOMAIN s |->
        IF \E k \in DOMAIN UpperCase : UpperCase[k] = s[i]
        THEN LowerCase[CHOOSE k \in DOMAIN UpperCase : UpperCase[k] = s[i]]
        ELSE s[i]]

\* String.prototype.includes
includes(s, w) ==
    \E i \in 0..(Len(s) - Len(w)) : SubSeq(s, i + 1, i + Len(w)) = w

\* longest list of raw records in one payload
MaxRaw == 2

\* A property of the payload: absent, an array, or one object.
Absent == [present |-> FALSE, isArray |-> FALSE, items |-> <<>>]
ArrayOf(list) == [present |-> TRUE, isArray |-> TRUE, items |-> list]
ObjectOf(raw) == [present |-> TRUE, isArray |-> FALSE, items |-> <<raw>>]

\* An object without any of the properties the parser looks at.
EmptyObject ==
    [isArray |-> FALSE, items |-> <<>>, AccountTransaction |-> Absent,
     Transactions |-> Absent, transactions |-> Absent, data |-> Absent,
     amount |-> 0, own |-> <<>>]

\* The payload that carries `list` in the given shape. "single" is one object
\* under Account.Transactions.Transaction, "bare" one record on its own.
Payload(shape, list) ==
    CASE shape = "array"        -> [EmptyObject EXCEPT !.isArray = TRUE, !.items = list]
      [] shape = "Account"      -> [EmptyObject EXCEPT !.AccountTransaction = ArrayOf(list)]
      [] shape = "single"       -> [EmptyObject EXCEPT !.AccountTransaction = ObjectOf(list[1])]
      [] shape = "Transactions" -> [EmptyObject EXCEPT !.Transactions = ArrayOf(list)]
      [] shape = "transactions" -> [EmptyObject EXCEPT !.transactions = ArrayOf(list)]
      [] shape = "data"         -> [EmptyObject EXCEPT !.data = ArrayOf(list)]
      [] shape = "bare"         -> [EmptyObject EXCEPT !.amount = list[1].amount,
                                                       !.own = <<list[1]>>]
      [] OTHER                  -> EmptyObject

extractTransactionArray_noLowercase(data) ==
    IF data.isArray THEN data.items
    ELSE IF data.AccountTransaction.present THEN data.AccountTransaction.items
    ELSE IF data.Transactions.present /\ data.Transactions.isArray
         THEN data.Transactions.items
    ELSE IF data.data.present /\ data.data.isArray THEN data.data.items
    ELSE IF data.amount # 0 THEN data.own
    ELSE <<>>

extractTransactionArray(data) ==
    IF data.isArray THEN data.items
    ELSE IF data.AccountTransaction.present THEN data.AccountTransaction.items
    ELSE IF data.Transactions.present /\ data.Transactions.isArray
         THEN data.Transactions.items
    ELSE IF data.transactions.present /\ data.transactions.isArray
         THEN data.transactions.items
    ELSE IF data.data.present /\ data.data.isArray THEN data.data.items
    ELSE IF data.amount # 0 THEN data.own
    ELSE <<>>

detectTransactionType(raw) ==
    LET type == toUpperCase(raw.type)
        narration == toLowerCase(raw.narration)
    IN  IF \/ includes(type, <<"C","R","E","D","I","T">>)
           \/ type = <<"C","R">>
           \/ type = <<"C">>
        THEN "CREDIT"
        ELSE IF \/ includes(type, <<"D","E","B","I","T">>)
                \/ type = <<"D","R">>
                \/ type = <<"D">>
        THEN "DEBIT"
        ELSE IF \/ includes(narration, <<"c","r","e","d","i","t">>)
                \/ includes(narration, <<"r","e","c","e","i","v","e","d">>)
                \/ includes(narration, <<"d","e","p","o","s","i","t">>)
        THEN "CREDIT"
        ELSE "DEBIT"

\* null for what is no object; amounts are in hundredths
normalizeTransaction(raw) ==
    IF ~raw.object THEN [isNull |-> TRUE, type |-> "", amount |-> 0]
    ELSE [isNull |-> FALSE, type |-> detectTransactionType(raw), amount |-> raw.amount]

\* rawTransactions.map(normalizeTransaction).filter(Boolean)
parseTransactions(rawData) ==
    LET rawTransactions == extractTransactionArray(rawData)
        normalized == [i \in DOMAIN rawTransactions |->
                          normalizeTransaction(rawTransactions[i])]
    IN  SelectSeq(normalized, LAMBDA t : ~t.isNull)

RECURSIVE sumAmount(_)
sumAmount(transactions) ==
    IF transactions = <<>> THEN 0
    ELSE transactions[1].amount + sumAmount(Tail(transactions))

\* the sums are whole hundredths, which Math.round(x * 100) / 100 keeps
calculateFlows(transactions) ==
    LET credits == SelectSeq(transactions, LAMBDA t : t.type = "CREDIT")
        debits == SelectSeq(transactions, LAMBDA t : t.type = "DEBIT")
        totalInflow == sumAmount(credits)
        totalOutflow == sumAmount(debits)
    IN  [totalInflow |-> totalInflow,
         totalOutflow |-> totalOutflow,
         netFlow |-> totalInflow - totalOutflow,
         creditCount |-> Len(credits),
         debitCount |-> Len(debits),
         totalTransactions |-> Len(transactions)]

analyzeTransactions(rawData) == calculateFlows(parseTransactions(rawData))

NoFlows == [shape |-> "", list |-> <<>>, data |-> <<>>, done |-> FALSE, result |-> <<>>]

analyze ==
    /\ ~flows.done
    /\ flows.shape # ""
    /\ flows' = [flows EXCEPT !.done = TRUE, !.result = <<analyzeTransactions(flows.data)>>]
    /\ UNCHANGED <<clock, astate, cstate, fstate, gcm, jws, gst, util, quiz, nova, upi>>

\* the raw records of the payloads: a type, an amount, a narration, or no object
RawRecords ==
    [object : {TRUE},
     type : {<<>>, <<"C","R","E","D","I","T">>, <<"d","r">>, <<"c">>},
     amount : {0, 10050},
     narration : {<<"r","e","n","t">>, <<"R","e","c","e","i","v","e","d">>}]
    \cup {[object |-> FALSE, type |-> <<>>, amount |-> 0, narration |-> <<>>]}

WrapperShapes == {"array", "Account", "Transactions", "transactions", "data"}
\* ─── Scoring engine (server.js) ─────────────────────────────────────────
\* Ratios, strengths and variances are in hundredths: 1.2 is 120, 0.8 is 80,
\* 0.15 is 15.
baseScore == 750

Min(a, b) == IF a <= b THEN a ELSE b

\* ScoringEngine.calculate, up to score and tier
calculate(ingestedData, validation) ==
    LET cashFlowBonus == IF ingestedData.upi.inflow_outflow_ratio > 120 THEN 40 ELSE 10
        stabilityBonus == IF validation.nodeStrength > 80 THEN 30 ELSE 0
        penalty == IF ingestedData.gst.variance_vs_bank > 15 THEN -50 ELSE 0
        finalScore == baseScore + cashFlowBonus + stabilityBonus + penalty
        tier == IF finalScore >= 750 THEN "Prime"
                ELSE IF finalScore >= 650 THEN "Good" ELSE "Sub-Prime"
    IN  [score |-> Min(finalScore, 900), tier |-> tier]

NoNova == [ingestedData |-> <<>>, validation |-> <<>>, done |-> FALSE, result |-> <<>>]

scoringCalculate ==
    /\ ~nova.done
    /\ nova.ingestedData # <<>>
    /\ nova' = [nova EXCEPT !.done = TRUE,
                            !.result = <<calculate(nova.ingestedData[1], nova.validation[1])>>]
    /\ UNCHANGED <<clock, astate, cstate, fstate, gcm, jws, gst, util, quiz, flows, upi>>
\* ─── UPI analytics (utils/upiAnalytics.js) ──────────────────────────────
\* A pattern is its alternatives in order; `boundary` is a trailing \b.
MCC_MAP == <<
    [mcc |-> "6012", pattern |-> <<
        [word |-> <<"s","a","l","a","r","y">>, boundary |-> FALSE],
        [word |-> <<"p","a","y","r","o","l","l">>, boundary |-> FALSE],
        [word |-> <<"w","a","g","e","s">>, boundary |-> FALSE]>>],
    [mcc |-> "6513", pattern |-> <<
        [word |-> <<"r","e","n","t">>, boundary |-> FALSE],
        [word |-> <<"h","o","u","s","i","n","g">>, boundary |-> FALSE],
        [word |-> <<"a","p","a","r","t","m","e","n","t">>, boundary |-> FALSE]>>],
    [mcc |-> "4900", pattern |-> <<
        [word |-> <<"e","l","e","c","t","r","i","c">>, boundary |-> FALSE],
        [word |-> <<"p","o","w","e","r">>, boundary |-> FALSE],
        [word |-> <<"u","t","i","l","i","t","y">>, boundary |-> FALSE],
        [word |-> <<"g","a","s">>, boundary |-> FALSE],
        [word |-> <<"w","a","t","e","r">>, boundary |-> FALSE]>>],
    [mcc |-> "5411", pattern |-> <<
        [word |-> <<"g","r","o","c","e","r">>, boundary |-> FALSE],
        [word |-> <<"s","u","p","e","r","m","a","r","k","e","t">>, boundary |-> FALSE],
        [word |-> <<"b","i","g","b","a","s","k","e","t">>, boundary |-> FALSE],
        [word |-> <<"b","l","i","n","k","i","t">>, boundary |-> FALSE]>>],
    [mcc |-> "5541", pattern |-> <<
        [word |-> <<"f","u","e","l">>, boundary |-> FALSE],
        [word |-> <<"p","e","t","r","o","l">>, boundary |-> FALSE],
        [word |-> <<"d","i","e","s","e","l">>, boundary |-> FALSE],
        [word |-> <<"i","o","c","l">>, boundary |-> FALSE],
        [word |-> <<"b","p","c","l">>, boundary |-> FALSE],
        [word |-> <<"h","p","c","l">>, boundary |-> FALSE]>>],
    [mcc |-> "4812", pattern |-> <<
        [word |-> <<"r","e","c","h","a","r","g","e">>, boundary |-> FALSE],
        [word |-> <<"m","o","b","i","l","e">>, boundary |-> FALSE],
        [word |-> <<"a","i","r","t","e","l">>, boundary |-> FALSE],
        [word |-> <<"j","i","o">>, boundary |-> FALSE],
        [word |-> <<"v","i">>, boundary |-> TRUE]>>],
    [mcc |-> "6300", pattern |-> <<
        [word |-> <<"i","n","s","u","r","a","n","c","e">>, boundary |-> FALSE],
        [word |-> <<"l","i","c">>, boundary |-> TRUE],
        [word |-> <<"e","m","i">>, boundary |-> TRUE],
        [word |-> <<"p","r","e","m","i","u","m">>, boundary |-> FALSE]>>],
    [mcc |-> "8062", pattern |-> <<
        [word |-> <<"h","o","s","p","i","t","a","l">>, boundary |-> FALSE],
        [word |-> <<"m","e","d","i","c","a","l">>, boundary |-> FALSE],
        [word |-> <<"p","h","a","r","m","a">>, boundary |-> FALSE],
        [word |-> <<"a","p","o","l","l","o">>, boundary |-> FALSE]>>],
    [mcc |-> "5311", pattern |-> <<
        [word |-> <<"s","h","o","p">>, boundary |-> FALSE],
        [word |-> <<"a","m","a","z","o","n">>, boundary |-> FALSE],
        [word |-> <<"f","l","i","p","k","a","r","t">>, boundary |-> FALSE],
        [word |-> <<"m","y","n","t","r","a">>, boundary |-> FALSE],
        [word |-> <<"m","a","l","l">>, boundary |-> FALSE]>>],
    [mcc |-> "5812", pattern |-> <<
        [word |-> <<"f","o","o","d">>, boundary |-> FALSE],
        [word |-> <<"s","w","i","g","g","y">>, boundary |-> FALSE],
        [word |-> <<"z","o","m","a","t","o">>, boundary |-> FALSE],
        [word |-> <<"r","e","s","t","a","u","r","a","n","t">>, boundary |-> FALSE],
        [word |-> <<"c","a","f","e">>, boundary |-> FALSE]>>],
    [mcc |-> "4121", pattern |-> <<
        [word |-> <<"u","b","e","r">>, boundary |-> FALSE],
        [word |-> <<"o","l","a">>, boundary |-> FALSE],
        [word |-> <<"c","a","b">>, boundary |-> FALSE],
        [word |-> <<"r","i","d","e">>, boundary |-> FALSE],
        [word |-> <<"m","e","t","r","o">>, boundary |-> FALSE],
        [word |-> <<"b","u","s">>, boundary |-> FALSE],
        [word |-> <<"t","r","a","i","n">>, boundary |-> FALSE]>>],
    [mcc |-> "7392", pattern |-> <<
        [word |-> <<"f","r","e","e","l","a","n","c","e">>, boundary |-> FALSE],
        [word |-> <<"c","l","i","e","n","t">>, boundary |-> FALSE],
        [word |-> <<"c","o","n","s","u","l","t">>, boundary |-> FALSE],
        [word |-> <<"p","r","o","j","e","c","t">>, boundary |-> FALSE]>>],
    [mcc |-> "6012", pattern |-> <<
        [word |-> <<"b","o","n","u","s">>, boundary |-> FALSE],
        [word |-> <<"i","n","c","e","n","t","i","v","e">>, boundary |-> FALSE],
        [word |-> <<"r","e","w","a","r","d">>, boundary |-> FALSE]>>],
    [mcc |-> "6010", pattern |-> <<
        [word |-> <<"l","o","a","n">>, boundary |-> FALSE],
        [word |-> <<"e","m","i">>, boundary |-> FALSE],
        [word |-> <<"r","e","p","a","y">>, boundary |-> FALSE]>>],
    [mcc |-> "6211", pattern |-> <<
        [word |-> <<"i","n","v","e","s","t">>, boundary |-> FALSE],
        [word |-> <<"m","u","t","u","a","l">>, boundary |-> FALSE],
        [word |-> <<"s","i","p">>, boundary |-> FALSE],
        [word |-> <<"s","t","o","c","k">>, boundary |-> FALSE],
        [word |-> <<"d","e","m","a","t">>, boundary |-> FALSE]>>]>>

\* \w of a regular expression
isWordChar(c) ==
    \/ \E k \in DOMAIN LowerCase : c = LowerCase[k] \/ c = UpperCase[k]
    \/ c \in {"0","1","2","3","4","5","6","7","8","9","_"}

\* pattern.test(narration) with the i flag: some alternative occurs, and where
\* it ends in \b no word character follows it
test(pattern, narration) ==
    LET text == toLowerCase(narration)
    IN  \E a \in DOMAIN pattern :
            LET word == pattern[a].word
            IN  \E i \in 0..(Len(text) - Len(word)) :
                    /\ SubSeq(text, i + 1, i + Len(word)) = word
                    /\ pattern[a].boundary =>
                           \/ i + Len(word) = Len(text)
                           \/ ~isWordChar(text[i + Len(word) + 1])

\* the mcc of the first entry whose pattern matches
inferMcc(narration) ==
    IF narration = <<>> THEN "0000"
    ELSE IF \E r \in DOMAIN MCC_MAP : test(MCC_MAP[r].pattern, narration)
    THEN MCC_MAP[CHOOSE r \in DOMAIN MCC_MAP :
                    /\ test(MCC_MAP[r].pattern, narration)
                    /\ \A q \in DOMAIN MCC_MAP :
                           test(MCC_MAP[q].pattern, narration) => r <= q].mcc
    ELSE "0000"

\* the mcc extractUniqueMccs takes for one transaction; "" is an absent field
mccOf(txn) ==
    LET rawMcc == IF txn.mcc # "" THEN txn.mcc ELSE txn.merchantCategoryCode
    IN  IF rawMcc # "" THEN rawMcc ELSE inferMcc(txn.narration)

NoUpi == [txn |-> <<>>, done |-> FALSE, result |-> <<>>]

\* extractUniqueMccs on a list of one transaction
extractUniqueMccs ==
    /\ ~upi.done
    /\ upi.txn # <<>>
    /\ upi' = [upi EXCEPT !.done = TRUE, !.result = <<mccOf(upi.txn[1])>>]
    /\ UNCHANGED <<clock, astate, cstate, fstate, gcm, jws, gst, util, quiz, flows, nova>>

Narrations ==
    {<<"r","e","n","t">>,
     <<"g","r","o","c","e","r","i","e","s">>,
     <<"s","a","l","a","r","y","-","c","r","e","d","i","t">>,
     <<"E","M","I">>,
     <<"e","m","i"," ","d","u","e">>,
     <<"H","o","m","e"," ","l","o","a","n">>,
     <<"l","o","a","n"," ","e","m","i">>,
     <<"e","m","i","s">>,
     <<"F","u","e","l">>,
     <<"u","t","i","l","i","t","y"," ","b","i","l","l">>,
     <<"L","I","C"," ","p","o","l","i","c","y">>,
     <<"i","n","s","u","r","a","n","c","e">>,
     <<"s","h","o","p","p","i","n","g">>,
     <<"f","o","o","d">>,
     <<"i","n","v","e","s","t","m","e","n","t">>,
     <<"c","a","b"," ","r","i","d","e">>,
     <<"g","i","f","t">>,
     <<>>}

\* ─── Clock ──────────────────────────────────────────────────────────────
Tick ==
    /\ ticks < MaxTicks
    /\ \E d \in TickSteps : now' = now + d
    /\ ticks' = ticks + 1
    /\ ret' = NoRet
    /\ cret' = NoCRet
    /\ UNCHANGED <<sessions, attempts, nextTxn, nver, pc, call,
                   lastInit, wrong, thirdAt, issued>>
    /\ UNCHANGED <<db, memoryStore, useMemory, ipc, nextConsent, cpc, ccall,
                   seenRevoked, createdOk, fstate, pstate>>

\* the clock as the consent service sees it: one instant after another
ConsentTick ==
    /\ ticks < MaxStamps
    /\ now' = now + 1
    /\ ticks' = ticks + 1
    /\ cret' = NoCRet
    /\ UNCHANGED <<db, memoryStore, useMemory, ipc, nextConsent, cpc, ccall,
                   seenRevoked, createdOk, notConsent>>

\* ─── Specifications ─────────────────────────────────────────────────────
Init ==
    /\ now = 1
    /\ ticks = 0
    /\ AInit
    /\ CInit
    /\ FInit
    /\ gcm = NoGcm
    /\ jws = NoJws
    /\ gst = NoGst
    /\ util = NoUtil
    /\ quiz = NoQuiz /\ flows = NoFlows /\ nova = NoNova /\ upi = NoUpi

ANext ==
    \/ Tick
    \/ \E p \in Procs, a \in Aadhaars : initiateOtp(p, a)
    \/ \E p \in Procs : initiatePostOk(p)
    \/ \E p \in Procs : initiatePostFail(p)
    \/ \E p \in Procs : initiateSmsDone(p)
    \/ \E p \in Procs : initiateDelayDone(p)
    \/ \E p \in Procs, a \in Aadhaars, o \in Otps, t \in TxnInputs : verifyOtp(p, a, o, t)
    \/ \E p \in Procs, r \in BackendOutcomes : verifyResume(p, r)

SpecAadhaar == Init /\ [][ANext]_vars

CNext ==
    \/ ConsentTick
    \/ init
    \/ \E ready \in BOOLEAN : initResume(ready)
    \/ \E p \in Procs, payload \in Payloads : createConsent(p, payload)
    \/ \E p \in Procs : createInsertOk(p)
    \/ \E p \in Procs : createInsertFail(p)
    \/ \E p \in Procs, id \in IdInputs : getConsent(p, id)
    \/ \E p \in Procs, ok \in BOOLEAN : getResume(p, ok)
    \/ \E p \in Procs, u \in UserInputs : getUserConsents(p, u)
    \/ \E p \in Procs, ok \in BOOLEAN : getUserResume(p, ok)
    \/ \E p \in Procs, id \in IdInputs : revokeConsent(p, id)
    \/ \E p \in Procs : revokeUpdateOk(p)
    \/ \E p \in Procs : revokeUpdateFail(p)

SpecConsent == Init /\ [][CNext]_vars

\* consent creation on its own, over the wide set of request bodies
CreateNext ==
    \/ ConsentTick
    \/ init
    \/ \E ready \in BOOLEAN : initResume(ready)
    \/ \E p \in Procs, payload \in CreatePayloads : createConsent(p, payload)
    \/ \E p \in Procs : createInsertOk(p)
    \/ \E p \in Procs : createInsertFail(p)

SpecCreate == Init /\ [][CreateNext]_vars

\* one filing: either return type, periods with and without a year change,
\* filing dates on and around the due days
GstInit ==
    /\ now = 1 /\ ticks = 0 /\ AInit /\ CInit /\ FInit
    /\ gcm = NoGcm /\ jws = NoJws /\ util = NoUtil
    /\ quiz = NoQuiz /\ flows = NoFlows /\ nova = NoNova /\ upi = NoUpi
    /\ \E t \in { "GSTR-1", "GSTR-3B" },
          period \in { <<2024, 1>>, <<2025, 6>>, <<2025, 12>> },
          y \in { 2024, 2025, 2026 }, m \in { 1, 2, 3, 6, 7, 8, 12 },
          d \in { 10, 11, 12, 19, 20, 21 },
          time \in { <<0, 0, 0, 0>>, <<23, 59, 59, 0>>, <<23, 59, 59, 1>> } :
         gst = [NoGst EXCEPT !.returnType = t, !.filingPeriod = period,
                             !.filingDate = <<y, m, d>> \o time]

SpecGst == GstInit /\ [][gstClassify]_vars

\* one list of up to MaxBills bills: paid early, two days late, two weeks
\* late, or unpaid, on four due dates
UtilInit ==
    /\ now = 1 /\ ticks = 0 /\ AInit /\ CInit /\ FInit
    /\ gcm = NoGcm /\ jws = NoJws /\ gst = NoGst
    /\ quiz = NoQuiz /\ flows = NoFlows /\ nova = NoNova /\ upi = NoUpi
    /\ LET Bills == { [dueDate |-> due, paymentDate |-> <<due + late>>, paymentStatus |-> "PAID"] :
                           due \in { 10, 40, 70, 100 }, late \in { -2, 2, 14 } }
                      \cup { [dueDate |-> due, paymentDate |-> <<>>, paymentStatus |-> "UNPAID"] :
                                 due \in { 10, 40, 70, 100 } }
        IN \E n \in 0..MaxBills : \E bills \in [1..n -> Bills] :
               util = [NoUtil EXCEPT !.bills = bills]

SpecUtil == UtilInit /\ [][utilCalculate]_vars

\* five answers to five questions of the pool, as they are or changed in one
\* place: a response dropped or added, an id repeated, unknown, missing or a
\* number, a choice outside the options or missing
QuizInit ==
    /\ now = 1 /\ ticks = 0 /\ AInit /\ CInit /\ FInit
    /\ gcm = NoGcm /\ jws = NoJws /\ gst = NoGst /\ util = NoUtil
    /\ flows = NoFlows /\ nova = NoNova /\ upi = NoUpi
    /\ \E choices \in [1..QUIZ_SIZE -> { "Never", "Sometimes", "Always" }],
          k \in 0..QUIZ_SIZE,
          change \in { "none", "drop", "extra", "repeated id", "unknown id", "no id",
                       "number id", "bad choice", "no choice" } :
         LET ids == <<"BQ01", "BQ07", "BQ12", "BQ19", "BQ20">>
             given == [i \in 1..QUIZ_SIZE |-> [id |-> JsStr(ids[i]), choice |-> choices[i]]]
             other == (k % QUIZ_SIZE) + 1
         IN /\ (k = 0) = (change \in { "none", "drop", "extra" })
            /\ quiz = [NoQuiz EXCEPT !.responses =
                  CASE change = "none" -> given
                    [] change = "drop" -> SubSeq(given, 1, QUIZ_SIZE - 1)
                    [] change = "extra" -> Append(given, [id |-> JsStr("BQ02"), choice |-> "Often"])
                    [] change = "repeated id" -> [given EXCEPT ![k].id = given[other].id]
                    [] change = "unknown id" -> [given EXCEPT ![k].id = JsStr("BQ21")]
                    [] change = "no id" -> [given EXCEPT ![k].id = JsUndefined]
                    [] change = "number id" -> [given EXCEPT ![k].id = JsNum(7)]
                    [] change = "bad choice" -> [given EXCEPT ![k].choice = "Maybe"]
                    [] OTHER -> [given EXCEPT ![k].choice = ""]]

SpecQuiz == QuizInit /\ [][submitQuiz]_vars

\* The payloads handed to analyzeTransactions: every list of up to MaxRaw raw
\* records in each wrapper shape, one record alone, and an object without any
FlowsInit ==
    /\ now = 1 /\ ticks = 0 /\ AInit /\ CInit /\ FInit
    /\ gcm = NoGcm /\ jws = NoJws /\ gst = NoGst /\ util = NoUtil
    /\ quiz = NoQuiz /\ nova = NoNova /\ upi = NoUpi
    /\ \E list \in SeqsUpTo(RawRecords, MaxRaw),
          shape \in WrapperShapes \cup {"single", "bare", "other"} :
         /\ shape \in {"single", "bare"} => Len(list) = 1 /\ list[1].object
         /\ shape = "other" => list = <<>>
         /\ flows = [NoFlows EXCEPT !.shape = shape, !.list = list,
                                    !.data = Payload(shape, list)]

SpecFlows == FlowsInit /\ [][analyze]_vars

\* The inputs of the scoring engine: ratios, strengths and variances on, next
\* to and away from the thresholds, with the values the mock ingestion gives
NovaInit ==
    /\ now = 1 /\ ticks = 0 /\ AInit /\ CInit /\ FInit
    /\ gcm = NoGcm /\ jws = NoJws /\ gst = NoGst /\ util = NoUtil
    /\ quiz = NoQuiz /\ flows = NoFlows /\ upi = NoUpi
    /\ \E ratio \in {80, 119, 120, 121, 145},
          nodeStrength \in {50, 80, 81, 88},
          variance \in {2, 15, 16, 30} :
         nova = [NoNova EXCEPT
                    !.ingestedData = <<[upi |-> [inflow_outflow_ratio |-> ratio],
                                        gst |-> [variance_vs_bank |-> variance]]>>,
                    !.validation = <<[nodeStrength |-> nodeStrength]>>]

SpecNova == NovaInit /\ [][scoringCalculate]_vars

\* One UPI transaction: a narration, with or without an mcc or
\* merchantCategoryCode of its own
UpiInit ==
    /\ now = 1 /\ ticks = 0 /\ AInit /\ CInit /\ FInit
    /\ gcm = NoGcm /\ jws = NoJws /\ gst = NoGst /\ util = NoUtil
    /\ quiz = NoQuiz /\ flows = NoFlows /\ nova = NoNova
    /\ \E narration \in Narrations, mcc \in {"", "5999"},
          merchantCategoryCode \in {"", "7011"} :
         upi = [NoUpi EXCEPT !.txn = <<[narration |-> narration, mcc |-> mcc,
                                       merchantCategoryCode |-> merchantCategoryCode]>>]

SpecUpi == UpiInit /\ [][extractUniqueMccs]_vars

FiNext ==
    \/ \E p \in Procs, params \in FiRequestInputs, pem \in BOOLEAN :
           initiateFiRequest(p, params, pem)
    \/ \E p \in Procs, r \in AaRequestResponses : fiRequestResume(p, r)
    \/ \E p \in Procs,
          sessionId \in { <<>>, <<"S1">>, <<"S9">>, <<"dev-session-", slice8(Uuid(1))>> } :
           fetchFiData(p, sessionId)
    \/ \E p \in Procs, r \in AaFetchResponses : fetchResume(p, r)

SpecFi == Init /\ [][FiNext]_vars

\* sealing, carrying and opening one blob
GcmNext ==
    \/ \E seed \in { 1, 2 } : gcmSeal(seed)
    \/ \E i \in 1..(IV_LENGTH + MaxPlain + TAG_LENGTH), j \in { 0, 7 } : gcmFlip(i, j)
    \/ \E k \in Keys32 \cup { SessionKey(3, 16) } : gcmOpen(k)

GcmInit ==
    /\ now = 1 /\ ticks = 0 /\ AInit /\ CInit /\ FInit
    /\ jws = NoJws /\ gst = NoGst /\ util = NoUtil
    /\ quiz = NoQuiz /\ flows = NoFlows /\ nova = NoNova /\ upi = NoUpi
    /\ \E k \in Keys32, p \in Plaintexts :
           gcm = [NoGcm EXCEPT !.key = k, !.plain = p]

SpecGcm == GcmInit /\ [][GcmNext]_vars

\* signing one payload and verifying the token against a payload
JwsNext ==
    \/ \E pem \in BOOLEAN : jwsSign(pem)
    \/ \E p \in JwsPayloads, path \in { "fiu", "other", "" } : jwsVerify(p, path)

JwsInit ==
    /\ now = 1 /\ ticks = 0 /\ AInit /\ CInit /\ FInit
    /\ gcm = NoGcm /\ gst = NoGst /\ util = NoUtil
    /\ quiz = NoQuiz /\ flows = NoFlows /\ nova = NoNova /\ upi = NoUpi
    /\ \E p \in JwsPayloads : jws = [NoJws EXCEPT !.payload = p]

SpecJws == JwsInit /\ [][JwsNext]_vars

\* ═══ Properties of the Aadhaar OTP service ══════════════════════════════

\* C1: a verify carrying txn_id T returns success only if T is the txn_id of
\* the most recent initiate that returned for the identity; an earlier txn_id
\* never verifies once a later initiate has returned.
C1_OnlyLatestTxnVerifies ==
    (ret.op = "verify" /\ ret.res = "SUCCESS")
        => (MapHas(lastInit, ret.h) /\ lastInit[ret.h] = ret.txn)

\* C2: after the k-th failed verify since the last success (1 <= k <= maxAttempts)
\* incrementFailed reports attemptsLeft = maxAttempts - k, the identity is
\* locked exactly from k = maxAttempts on, and attemptsLeft is never negative.
C2_AttemptsLeft ==
    /\ ret.attemptsLeft >= 0
    /\ \A h \in DOMAIN attempts :
          isLocked(attempts, h, now).locked => (MapHas(wrong, h) /\ wrong[h] >= maxAttempts)
    /\ (ret.op = "verify" /\ ret.res \in {"OTP_INVALID", "LOCKED_NOW"}
          /\ wrong[ret.h] <= maxAttempts)
        => /\ ret.attemptsLeft = maxAttempts - wrong[ret.h]
           /\ ret.locked = (wrong[ret.h] = maxAttempts)
           /\ isLocked(attempts, ret.h, now).locked = (wrong[ret.h] = maxAttempts)

C2_Witness ==
    /\ ret.op = "verify" /\ ret.res = "LOCKED_NOW"
    /\ wrong[ret.h] = maxAttempts
    /\ ret.attemptsLeft = 0
    /\ isLocked(attempts, ret.h, now).locked

\* C3: a lock that is in force is neither removed nor shortened by any step
\* that leaves the clock before its expiry.
C3_LockNeverLifted ==
    [][\A h \in DOMAIN attempts :
          (isLocked(attempts, h, now).locked /\ now' < attempts[h].lockedUntil)
              => (MapHas(attempts', h)
                  /\ attempts'[h].lockedUntil >= attempts[h].lockedUntil)]_vars

\* the lockout window opened by the maxAttempts-th wrong verify is still running
LockoutRunning(h) ==
    /\ MapHas(wrong, h) /\ wrong[h] >= maxAttempts
    /\ MapHas(thirdAt, h) /\ now < thirdAt[h] + lockoutDurationMs

C5_SessionConsumedOnce ==
    /\ \A t \in DOMAIN issued : issued[t] <= 1
    /\ (ret.op = "verify" /\ ret.res \in {"LOCKED", "NO_SESSION", "TXN_MISMATCH", "PENDING"}
          /\ MapHas(issued, ret.txn)
          /\ MapHas(lastInit, ret.h) /\ lastInit[ret.h] = ret.txn)
        => ret.res = "NO_SESSION"

\* ═══ Properties of the consent service ══════════════════════════════════
idOf(r) == IF "consentId" \in DOMAIN r THEN r.consentId ELSE r.consent_id

\* C6: a consent is ACTIVE right after create, and a stored consent whose
\* status is REVOKED keeps that status through every step.
C6_RevokedIsTerminal ==
    /\ []((cret.op = "create" /\ cret.res = "OK")
            => /\ cret.data[1].status = "ACTIVE"
               /\ Stored(db, memoryStore, cret.id)
               /\ StoredStatus(db, memoryStore, cret.id) = "ACTIVE")
    /\ [][/\ \A id \in DOMAIN db :
                db[id].status = "REVOKED"
                    => (MapHas(db', id) /\ db'[id].status = "REVOKED")
          /\ \A i \in 1..Len(memoryStore) :
                memoryStore[i].status = "REVOKED"
                    => /\ Len(memoryStore') >= i
                       /\ memoryStore'[i].consentId = memoryStore[i].consentId
                       /\ memoryStore'[i].status = "REVOKED"]_vars

C6_Witness ==
    /\ cret.op = "revoke" /\ cret.res = "NOT_FOUND" /\ cret.nonActive
    /\ StoredStatus(db, memoryStore, cret.id) = "REVOKED"

\* C7: revoked_at is set exactly on the records whose status is REVOKED, and
\* once set it never changes.
C7_RevokedAtIffRevoked ==
    /\ [](/\ \A id \in DOMAIN db : (db[id].revoked_at # 0) = (db[id].status = "REVOKED")
          /\ \A i \in 1..Len(memoryStore) :
                ("revokedAt" \in DOMAIN memoryStore[i]) = (memoryStore[i].status = "REVOKED"))
    /\ [][/\ \A id \in DOMAIN db :
                db[id].revoked_at # 0
                    => (MapHas(db', id) /\ db'[id].revoked_at = db[id].revoked_at)
          /\ \A i \in 1..Len(memoryStore) :
                "revokedAt" \in DOMAIN memoryStore[i]
                    => /\ Len(memoryStore') >= i
                       /\ "revokedAt" \in DOMAIN memoryStore'[i]
                       /\ memoryStore'[i].revokedAt = memoryStore[i].revokedAt]_vars

C7_Witness ==
    /\ cret.op = "revoke" /\ cret.res = "OK"
    /\ \/ MapHas(db, cret.id) /\ db[cret.id].revoked_at # 0
       \/ /\ memFind(memoryStore, cret.id) # <<>>
          /\ "revokedAt" \in DOMAIN memFind(memoryStore, cret.id)[1]

\* C8: revoke on an ACTIVE consent returns it REVOKED with revoked_at set;
\* revoke on a stored consent that is not ACTIVE returns a conflict error,
\* not the error of an unknown id, and leaves the record as it is.
C8_RevokeConflict ==
    /\ (cret.op = "revoke" /\ cret.res = "OK")
          => (cret.data[1].status = "REVOKED")
    /\ (cret.op = "revoke" /\ cret.nonActive /\ ~cret.dbError)
          => cret.res = "CONFLICT"

\* C9: a get that starts after some caller has observed the consent REVOKED
\* never returns it ACTIVE.
C9_NoActiveAfterRevoked ==
    (cret.op = "get" /\ cret.res = "OK" /\ cret.late)
        => cret.data[1].status # "ACTIVE"

C9_Witness ==
    /\ cret.op = "get" /\ cret.res = "OK" /\ cret.late
    /\ cret.data[1].status = "REVOKED"

\* C10: every consent whose create has returned success is found by a later
\* get, listed by a later list_by_user and revoked by a later revoke while it
\* is ACTIVE, whichever store is in use (a call whose own store query failed
\* is left aside).
C10_CreatedStaysReachable ==
    /\ (cret.op = "get" /\ cret.known /\ ~cret.dbError)
          => cret.res = "OK"
    /\ (cret.op = "revoke" /\ cret.known /\ ~cret.dbError
          /\ cret.res # "OK")
          => cret.nonActive
    /\ (cret.op = "list" /\ cret.res = "OK" /\ ~cret.dbError)
          => \A id \in cret.listed :
                (IF MapHas(db, id) THEN db[id].user_reference_id
                 ELSE memFind(memoryStore, id)[1].userReferenceId) = cret.user
                    => \E i \in 1..Len(cret.data) : idOf(cret.data[i]) = id

\* C11: a create whose payload breaks a validation rule (user_reference_id
\* empty or not a string; fi_types empty or with a value outside the allowed
\* set; data_range.from or .to unparseable or from >= to; data_life.unit
\* outside DAY/MONTH/YEAR/INF or value negative) returns VALIDATION and leaves
\* the table and the in-memory list as they were.
SpecFiTypes == { "DEPOSIT", "UPI", "GST", "UTILITY", "SOCIAL", "TERM_DEPOSIT",
                 "RECURRING_DEPOSIT", "MUTUAL_FUNDS", "SIP" }
BreaksRule(payload) ==
    \/ payload.userReferenceId.type # "string" \/ payload.userReferenceId.val = ""
    \/ payload.fiTypes.items = <<>>
    \/ \E i \in DOMAIN payload.fiTypes.items : payload.fiTypes.items[i] \notin SpecFiTypes
    \/ payload.dataRange.from = -1 \/ payload.dataRange.to = -1
    \/ payload.dataRange.from >= payload.dataRange.to
    \/ payload.dataLife.unit \notin { "DAY", "MONTH", "YEAR", "INF" }
    \/ payload.dataLife.value.num < 0
C11_InvalidCreatePersistsNothing ==
    [][(cret'.op = "create" /\ BreaksRule(cret'.payload[1]))
          => /\ cret'.res = "VALIDATION"
             /\ db' = db /\ memoryStore' = memoryStore]_vars
C11_Witness ==
    /\ cret.op = "create" /\ cret.res = "VALIDATION"
    /\ cret.payload[1].dataRange.from = cret.payload[1].dataRange.to
    /\ (db # EmptyMap \/ memoryStore # <<>>)

\* C12: a create whose fi_types is a non-empty subset of the nine FI types,
\* all other fields valid, is accepted and answered with an ACTIVE consent
\* (it is never answered with VALIDATION).
C12_NineFiTypesAccepted ==
    (cret.op = "create" /\ ~BreaksRule(cret.payload[1]))
        => (cret.res = "OK" /\ cret.data[1].status = "ACTIVE")

\* ═══ Properties of the FI pipeline ══════════════════════════════════════

\* C13: a fetch that returns success for session_id S works on an FI session
\* that a request stored with session_id S, and the txn_id it returns is the
\* txn_id that session is stored under.
C13_FetchSeesStoredSession ==
    (fret.op = "fetch" /\ fret.res = "OK")
        => /\ MapHas(fiSessions, fret.txnid)
           /\ fiSessions[fret.txnid].sessionId = fret.sessionId

\* C14: when the AA response carries an encryptedFI blob and it is not
\* decrypted (tag mismatch, blob too short, no usable key), the fetch returns
\* a DECRYPT failure: no success result, nothing handed to the analysis.
C14_DecryptFailureSurfaced ==
    (fret.op = "fetch" /\ fret.encrypted /\ ~fret.decrypted)
        => (fret.res = "DECRYPT" /\ fret.analysed = <<>>)

\* C15: a result or stored record that came about on a fallback path (the
\* UIDAI call of initiate or verify failed, the AA call of request or fetch
\* failed) carries a degraded flag; one from the normal path does not.
DegradedFlags == { "degraded", "devMode", "_devMode" }
C15_DegradedFlagged ==
    [][\A p \in Procs :
          /\ initiateDelayDone(p) => ResultKeys(ret') \cap DegradedFlags # {}
          /\ initiatePostOk(p) => ResultKeys(ret') \cap DegradedFlags = {}
          /\ verifyResume(p, "error") => ResultKeys(ret') \cap DegradedFlags # {}
          /\ (verifyResume(p, "ret_y") \/ verifyResume(p, "ret_n"))
                => ResultKeys(ret') \cap DegradedFlags = {}
          /\ \A r \in AaRequestResponses :
                fiRequestResume(p, r)
                  => IF r = <<"error">>
                     THEN /\ fret'.devMode
                          /\ DOMAIN fiSessions'[fret'.txnid] \cap DegradedFlags # {}
                     ELSE /\ ~fret'.devMode
                          /\ DOMAIN fiSessions'[fret'.txnid] \cap DegradedFlags = {}
          /\ \A r \in AaFetchResponses :
                fetchResume(p, r) => (fret'.devMode <=> r.threw)]_vars

\* C16: a request that passed validation has stored one FI session under its
\* txn_id with status PENDING; the stored and returned session_id is there:
\* the AA's sessionId / SessionId, or, when the AA call failed, "dev-session-"
\* and the first 8 characters of txn_id, the stored session flagged degraded.
C16_RequestStoresSession ==
    (fret.op = "request" /\ fret.res = "OK")
        => /\ MapHas(fiSessions, fret.txnid)
           /\ LET session == fiSessions[fret.txnid]
              IN /\ session.status = "PENDING"
                 /\ session.txnid = fret.txnid
                 /\ session.sessionId = fret.sessionId
                 /\ session.sessionId # <<>>
                 /\ fret.devMode =>
                       /\ session.sessionId = <<"dev-session-", slice8(fret.txnid)>>
                       /\ DOMAIN session \cap DegradedFlags # {}

\* C17: opening, with the key it was sealed under, the blob IV || ciphertext
\* || tag of any plaintext (the empty one included) returns that plaintext;
\* opening a blob with a flipped ciphertext or tag bit returns a failure and
\* no plaintext.
C17_GcmRoundTrip ==
    (gcm.opened /\ gcm.openKey = gcm.key)
        => IF gcm.flips = 0
           THEN gcm.out.success /\ gcm.out.data = gcm.plain
           ELSE ~gcm.out.success /\ gcm.out.data = <<>>

\* C18: the detached JWS the signer produced for a payload p, on whichever
\* signing path, is accepted when verified against p with the matching
\* public key, and rejected when verified against a payload that differs
\* from p.
C18_JwsRoundTrip ==
    (jws.verified /\ jws.path = "fiu")
        => (jws.ok <=> jws.against = jws.payload)

\* ═══ Properties of the analysers ════════════════════════════════════════

\* C19: for every filing period YYYY-MM, December included, a GSTR-1 (GSTR-3B)
\* filing is ON_TIME exactly when it is filed no later than 23:59:59 on day
\* 11 (20) of the month after the period; any later filing is DELAYED with
\* delayDays >= 1.
FiledBy(filed, deadline) ==
    \E i \in 1..8 :
        /\ \A j \in 1..(i - 1) : filed[j] = deadline[j]
        /\ (i = 8 \/ filed[i] < deadline[i])
C19_GstDueDate ==
    gst.classification # ""
        => LET nextMonth == IF gst.filingPeriod[2] = 12
                            THEN <<gst.filingPeriod[1] + 1, 1>>
                            ELSE <<gst.filingPeriod[1], gst.filingPeriod[2] + 1>>
               day == IF gst.returnType = "GSTR-1" THEN 11 ELSE 20
               onTime == FiledBy(gst.filingDate, nextMonth \o <<day, 23, 59, 59, 0>>)
           IN IF onTime THEN gst.classification = "ON_TIME" /\ gst.delayDays = 0
              ELSE gst.classification = "DELAYED" /\ gst.delayDays >= 1
C19_Witness ==
    /\ gst.filingPeriod = <<2025, 12>> /\ gst.returnType = "GSTR-1"
    /\ gst.filingDate = <<2026, 1, 11, 23, 59, 59, 1>>
    /\ gst.classification = "DELAYED" /\ gst.delayDays = 1

\* C20: four bills classified ON_TIME, MINOR_DELAY, MAJOR_DELAY and UNPAID, one
\* each, give reliabilityScore 45.0, a count of 1 for each class and trend
\* STABLE; a non-empty list of bills all ON_TIME gives 100.0 and one of bills
\* all UNPAID gives 0.0.
OneOfEach(result) ==
    /\ Len(result.bills) = 4
    /\ { result.bills[i].classification : i \in 1..4 }
           = { "ON_TIME", "MINOR_DELAY", "MAJOR_DELAY", "UNPAID" }
AllOf(result, status) ==
    /\ result.bills # <<>>
    /\ \A i \in 1..Len(result.bills) : result.bills[i].classification = status
C20_ScoresAndCounts ==
    util.done
        => LET result == util.result[1]
           IN /\ OneOfEach(result)
                    => /\ result.reliabilityScore = 4500
                       /\ result.onTimePayments = 1 /\ result.minorDelays = 1
                       /\ result.majorDelays = 1 /\ result.unpaidBills = 1
              /\ AllOf(result, "ON_TIME") => result.reliabilityScore = 10000
              /\ AllOf(result, "UNPAID") => result.reliabilityScore = 0
C20_ReliabilityExample ==
    /\ C20_ScoresAndCounts
    /\ (util.done /\ OneOfEach(util.result[1])) => util.result[1].trend = "STABLE"
\* C20 as amended: the scores and counts as stated, and for the four bills the
\* trend follows the bill with the oldest due date: DECLINING when that bill
\* is the ON_TIME one, IMPROVING when it is the UNPAID one, STABLE otherwise.
OldestBill(bills) ==
    CHOOSE i \in 1..Len(bills) :
        \A j \in 1..Len(bills) :
            \/ bills[i].dueDate < bills[j].dueDate
            \/ bills[i].dueDate = bills[j].dueDate /\ i <= j
C20_TrendFollowsOldestBill ==
    /\ C20_ScoresAndCounts
    /\ (util.done /\ OneOfEach(util.result[1]))
           => LET oldest == classifyPayment(util.bills[OldestBill(util.bills)])
              IN util.result[1].trend
                    = CASE oldest = "ON_TIME" -> "DECLINING"
                        [] oldest = "UNPAID" -> "IMPROVING"
                        [] OTHER -> "STABLE"
C20_Witness ==
    /\ util.done
    /\ util.bills = << [dueDate |-> 10, paymentDate |-> <<8>>, paymentStatus |-> "PAID"],
                       [dueDate |-> 40, paymentDate |-> <<42>>, paymentStatus |-> "PAID"],
                       [dueDate |-> 70, paymentDate |-> <<84>>, paymentStatus |-> "PAID"],
                       [dueDate |-> 100, paymentDate |-> <<>>, paymentStatus |-> "UNPAID"] >>
    /\ util.result[1].reliabilityScore = 4500
    /\ util.result[1].trend = "DECLINING"

\* ═══ Further properties of the Aadhaar OTP service ══════════════════════

\* C24: while an identity is locked no verify for it returns success or
\* issues a JWT, whatever it carries and whenever it was started, verifies
\* already waiting on the backend when the lock was set included.
C24_NoSuccessWhileLocked ==
    [][(ret'.op = "verify" /\ ret'.res = "SUCCESS")
          => /\ ~isLocked(attempts, ret'.h, now).locked
             /\ ~isLocked(attempts', ret'.h, now').locked]_vars

RejectedEarly == { "INVALID_ID", "INVALID_OTP", "TXN_REQUIRED", "LOCKED",
                   "NO_SESSION", "TXN_MISMATCH" }
VerifySettles ==
    /\ (ret'.op = "verify" /\ ret'.outcome # "none")
          => (ret'.res = "SUCCESS"
                <=> \/ ret'.outcome = "ret_y"
                    \/ ret'.outcome = "error" /\ ret'.otp = TEST_OTP)
    /\ (ret'.op = "verify" /\ ret'.res \in { "OTP_INVALID", "LOCKED_NOW" })
          => /\ ret'.outcome # "none"
             /\ MapHas(attempts', ret'.h)
             /\ attempts'[ret'.h].count
                   = (IF MapHas(attempts, ret'.h) THEN attempts[ret'.h].count ELSE 0) + 1
             /\ issued' = issued
             /\ sessions' = sessions
\* C25: a verify that reaches the backend returns success exactly when the
\* response carries ret="y" or the call failed and the OTP is the test OTP;
\* otherwise it calls incrementFailed once and issues no JWT; a verify
\* rejected before the backend call changes neither the attempt record nor
\* the session.
C25_VerifyOutcome ==
    [][/\ VerifySettles
       /\ (ret'.op = "verify" /\ ret'.res \in RejectedEarly)
             => (attempts' = attempts /\ sessions' = sessions)]_vars
\* C25 as amended: a verify rejected before the backend call leaves the
\* session as it is and changes the attempt record at most by deleting a
\* record whose lock has expired.
C25_VerifyOutcomeExpiry ==
    [][/\ VerifySettles
       /\ (ret'.op = "verify" /\ ret'.res \in RejectedEarly)
             => /\ sessions' = sessions
                /\ \/ attempts' = attempts
                   \/ /\ MapHas(attempts, ret'.h)
                      /\ attempts[ret'.h].lockedUntil # 0
                      /\ now >= attempts[ret'.h].lockedUntil
                      /\ attempts' = MapDelete(attempts, ret'.h)]_vars
C25_Witness ==
    /\ ret.op = "verify" /\ ret.res = "TXN_MISMATCH"
    /\ ~MapHas(attempts, ret.h)
    /\ MapHas(wrong, ret.h) /\ wrong[ret.h] >= maxAttempts
    /\ now >= thirdAt[ret.h] + lockoutDurationMs

\* C28: between two moments at which an identity has no attempt record, at
\* most maxAttempts guesses for it are dispatched to the backend and answered
\* as wrong, verifies in flight at the same time included. The record counts
\* the wrong answers since it was last absent.
C28_GuessesBounded ==
    \A h \in DOMAIN attempts : attempts[h].count <= maxAttempts

\* C29: a successful verify of txn_id T removes only the session that holds T;
\* a session stored by a later initiate with another txn_id is still there
\* after the verify returns, and a verify carrying that txn_id is not rejected
\* with NO_SESSION.
C29_SuccessClearsOwnSession ==
    [][/\ (ret'.op = "verify" /\ ret'.res = "SUCCESS")
             => \A h \in DOMAIN sessions :
                   sessions[h].txnId # ret'.txn
                       => (MapHas(sessions', h) /\ sessions'[h] = sessions[h])
       /\ (ret'.op = "verify" /\ ret'.res = "NO_SESSION"
             /\ MapHas(lastInit, ret'.h) /\ lastInit[ret'.h] = ret'.txn)
             => MapHas(issued, ret'.txn)]_vars

\* ═══ Further properties of the consent service ══════════════════════════

\* C30: for every stored consent the status inside its consent artefact
\* equals the status of the record: ACTIVE after create, REVOKED after a
\* successful revoke.
C30_ArtefactStatusAgrees ==
    /\ \A id \in DOMAIN db : db[id].consent_artefact.status = db[id].status
    /\ \A i \in 1..Len(memoryStore) :
          memoryStore[i].consentArtefact.status = memoryStore[i].status

\* ═══ Further properties of the analysers ════════════════════════════════

TrendOfFourOrMore(result) ==
    LET n == Len(result.bills)
        scores == [i \in 1..n |-> result.bills[i].score]
        total == sumScores(result.bills)
        last3 == scores[n] + scores[n - 1] + scores[n - 2]
    IN /\ result.trend \in { "IMPROVING", "DECLINING", "STABLE" }
       /\ result.trend = "IMPROVING" <=> 4 * n * last3 > 12 * total + 12 * n
       /\ result.trend = "DECLINING" <=> 4 * n * last3 < 12 * total - 12 * n
\* C26: the trend of the utility reliability result is always IMPROVING,
\* DECLINING or STABLE: STABLE for fewer than 4 bills, the empty list
\* included; with 4 or more bills IMPROVING iff the mean score of the 3
\* chronologically last bills exceeds the overall mean by more than 1,
\* DECLINING iff it is below it by more than 1, STABLE otherwise.
C26_TrendRule ==
    util.done
        => /\ Len(util.bills) < 4 => util.result[1].trend = "STABLE"
           /\ Len(util.bills) >= 4 => TrendOfFourOrMore(util.result[1])

\* C21: a response list is accepted exactly when it has 5 entries with
\* pairwise distinct ids of the pool and choices among the five options; an
\* accepted list gets totalScore in 5..25 and behaviourScore = totalScore / 25
\* in 0.2..1.0; every other list is rejected without a score.
C21_QuizAccepted ==
    quiz.done
        => LET r == quiz.responses
               wellFormed ==
                   /\ Len(r) = 5
                   /\ \A i, j \in 1..Len(r) : i # j => r[i].id # r[j].id
                   /\ \A i \in 1..Len(r) :
                         /\ r[i].id.type = "string" /\ r[i].id.val \in QUESTION_POOL
                         /\ r[i].choice \in { "Never", "Rarely", "Sometimes", "Often", "Always" }
           IN /\ quiz.success <=> wellFormed
              /\ quiz.success
                    => /\ quiz.data[1].totalScore \in 5..25
                       /\ quiz.data[1].behaviourScore = quiz.data[1].totalScore * 400
                       /\ quiz.data[1].behaviourScore \in 2000..10000
              /\ ~quiz.success => quiz.data = <<>>
C21_Witness ==
    /\ quiz.done /\ quiz.success
    /\ \A i \in 1..Len(quiz.responses) : quiz.responses[i].choice = "Always"
    /\ quiz.data[1].totalScore = 25 /\ quiz.data[1].behaviourScore = 10000

\* The five numbers of a result the wrapper shapes are compared on.
FlowNumbers(result) ==
    <<result.totalInflow, result.totalOutflow, result.netFlow,
      result.creditCount, result.debitCount>>

\* C22: analyzeTransactions returns the same totalInflow, totalOutflow, netFlow,
\* creditCount and debitCount for a list of raw records whether the list is the
\* top-level array or sits under Account.Transactions.Transaction, Transactions,
\* transactions or data.
C22_ShapeIndependent ==
    (flows.done /\ flows.shape \in WrapperShapes) =>
        FlowNumbers(flows.result[1]) =
            FlowNumbers(analyzeTransactions(Payload("array", flows.list)))

C22_Witness ==
    /\ flows.done
    /\ flows.shape = "transactions"
    /\ Len(flows.list) = 2
    /\ flows.result[1].creditCount = 1
    /\ flows.result[1].debitCount = 1
    /\ flows.result[1].totalInflow = 10050
    /\ flows.result[1].netFlow = 0

\* C23: the returned score is 750, plus 40 if the UPI inflow/outflow ratio is at
\* least 1.2 (exactly 1.2 included) and plus 10 otherwise, plus 30 if the network
\* strength is above 0.8, minus 50 if the GST/bank variance is above 15%, clamped
\* to [300, 900]; the tier is Prime iff that score is at least 750, Good iff it
\* is at least 650 and below 750, Sub-Prime otherwise.
C23_ScoreAndTier ==
    nova.done =>
        LET ratio == nova.ingestedData[1].upi.inflow_outflow_ratio
            strength == nova.validation[1].nodeStrength
            variance == nova.ingestedData[1].gst.variance_vs_bank
            sum == 750 + (IF ratio >= 120 THEN 40 ELSE 10)
                       + (IF strength > 80 THEN 30 ELSE 0)
                       - (IF variance > 15 THEN 50 ELSE 0)
            score == IF sum < 300 THEN 300 ELSE IF sum > 900 THEN 900 ELSE sum
            result == nova.result[1]
        IN  /\ result.score = score
            /\ (result.tier = "Prime") = (result.score >= 750)
            /\ (result.tier = "Good") = (result.score >= 650 /\ result.score < 750)
            /\ result.tier \in {"Prime", "Good", "Sub-Prime"}

\* The table of keywords and codes as stated.
StatedMccTable ==
    <<[keyword |-> <<"s","a","l","a","r","y">>, mcc |-> "6012"],
      [keyword |-> <<"r","e","n","t">>, mcc |-> "6513"],
      [keyword |-> <<"u","t","i","l","i","t","y">>, mcc |-> "4900"],
      [keyword |-> <<"g","r","o","c","e","r">>, mcc |-> "5411"],
      [keyword |-> <<"f","u","e","l">>, mcc |-> "5541"],
      [keyword |-> <<"t","e","l","e","c","o","m">>, mcc |-> "4812"],
      [keyword |-> <<"i","n","s","u","r","a","n","c","e">>, mcc |-> "6300"],
      [keyword |-> <<"h","e","a","l","t","h","c","a","r","e">>, mcc |-> "8062"],
      [keyword |-> <<"s","h","o","p","p","i","n","g">>, mcc |-> "5311"],
      [keyword |-> <<"f","o","o","d">>, mcc |-> "5812"],
      [keyword |-> <<"t","r","a","n","s","p","o","r","t">>, mcc |-> "4121"],
      [keyword |-> <<"p","r","o","f","e","s","s","i","o","n","a","l">>, mcc |-> "7392"],
      [keyword |-> <<"l","o","a","n">>, mcc |-> "6010"],
      [keyword |-> <<"e","m","i">>, mcc |-> "6010"],
      [keyword |-> <<"i","n","v","e","s","t","m","e","n","t">>, mcc |-> "6211"]>>

\* every word of every pattern of the code's table
PatternWords ==
    UNION {{MCC_MAP[r].pattern[a].word : a \in DOMAIN MCC_MAP[r].pattern} :
               r \in DOMAIN MCC_MAP}

\* C27: a UPI transaction without an explicit MCC gets the code the table
\* assigns to the keyword in its narration (salary 6012, rent 6513, utility
\* 4900, grocer 5411, fuel 5541, telecom 4812, insurance 6300, healthcare 8062,
\* shopping 5311, food 5812, transport 4121, professional 7392, loan or EMI
\* 6010, investment 6211) and 0000 when no keyword matches; a narration whose
\* only keyword is EMI gets 6010.
C27_MccOfKeyword ==
    (upi.done /\ upi.txn[1].mcc = "" /\ upi.txn[1].merchantCategoryCode = "") =>
        LET text == toLowerCase(upi.txn[1].narration)
            found == {k \in DOMAIN StatedMccTable : includes(text, StatedMccTable[k].keyword)}
        IN  /\ \A k \in found :
                   found = {k} => upi.result[1] = StatedMccTable[k].mcc
            /\ (\A w \in PatternWords : ~includes(text, w)) => upi.result[1] = "0000"

====
